---- MODULE Spec2Model ----
(***************************************************************************)
(* Whisperr-Chat: the chat synchronisation and read-state model.           *)
(* The document store (collection "chats" and its "messages"               *)
(* sub-collections) is the shared state; every exported function of the    *)
(* firestore service is a call whose store round-trips are the atomic      *)
(* steps, so that calls of both participants interleave between them.      *)
(***************************************************************************)
EXTENDS Integers, Sequences, FiniteSets, TLC

(***************************************************************************)
(* Bounds of the model.                                                    *)
(***************************************************************************)
MaxCalls == 3
MaxInFlight == 2
MaxFailures == 1
MaxSeqCalls == 4
MaxRaceCalls == 4
MaxDeleteCalls == 4
MaxTypingCalls == 4
MaxClock == 8
MaxViewCalls == 5
MaxSubscribeCalls == 3
MaxInboxCalls == 4
MaxSendCalls == 5
MaxMalformedCalls == 3
MaxIdLen == 2
MaxProfileCalls == 4
MaxLossyCalls == 3
MaxKeepTypingCalls == 4
MaxFixpointMessages == 2

MaxLifecycleCalls == 3

\* the wall-clock time one unit of the clock stands for, in milliseconds
TickMs == 1000

\* the age from which a reader leaves a typing entry out, in milliseconds
StaleMs == 3000

(***************************************************************************)
(* Strings are sequences of UTF-16 code units, so that sorting and joining *)
(* are computed as JavaScript computes them.                               *)
(***************************************************************************)
\* join("") in the place of join("_")
NoSeparator == << >>

Underscore == <<95>>

UA == <<97>>

UB == <<98>>

testUserId == <<116, 101, 115, 116, 45, 117, 115, 101, 114, 45, 49, 50, 51>>

Users == {UA, UB, testUserId}

Texts == {"hello", "hi"}

testMessage == "Hello! This is a test message."

\* the username a caller passes along with a uid
NameOf(uid) == IF uid = UA THEN "alice" ELSE IF uid = UB THEN "bob" ELSE "Test User"

Min(a, b) == IF a < b THEN a ELSE b

\* s sorts before t in Array.prototype.sort's default (code unit) order
StrLess(s, t) ==
    \E i \in 1..(Min(Len(s), Len(t)) + 1) :
        /\ \A j \in 1..(i - 1) : s[j] = t[j]
        /\ \/ i = Len(s) + 1 /\ i <= Len(t)
           \/ i <= Len(s) /\ i <= Len(t) /\ s[i] < t[i]

\* the two ids joined in the order of the arguments
generateChatIdUnsorted(uid1, uid2) == uid1 \o Underscore \o uid2

generateChatId(uid1, uid2) ==
    LET sorted == IF StrLess(uid2, uid1) THEN <<uid2, uid1>> ELSE <<uid1, uid2>>
    IN  sorted[1] \o Underscore \o sorted[2]

\* the (sender, receiver) pairs the sessions of the model send between
SendPairs == {<<UA, UB>>, <<UB, UA>>, <<UA, testUserId>>}

ChatIds == {generateChatId(p[1], p[2]) : p \in SendPairs}

\* the two participants of a chat of the model
ParticipantsOf(chatId) ==
    {u \in Users : \E p \in SendPairs : chatId = generateChatId(p[1], p[2]) /\ u \in {p[1], p[2]}}

\* the conversation of the two sessions
chatAB == generateChatId(UA, UB)

\* the code units of the ids generateChatId is applied to: "-", "_" and "a"
IdChars == {45, 95, 97}

\* the ids generateChatId is applied to: every string of at most MaxIdLen code units
Ids == UNION {[1..n -> IdChars] : n \in 0..MaxIdLen}

\* the id is not empty and does not contain the delimiter of the join
NoDelimiter(uid) == Len(uid) > 0 /\ \A i \in 1..Len(uid) : uid[i] # 95

\* the empty string passed as an id
EmptyId == << >>

\* the (sender, receiver) pairs of the sends whose receiver id is empty
MalformedPairs == {<<UA, EmptyId>>}

MalformedChatIds == {generateChatId(p[1], p[2]) : p \in MalformedPairs}

\* the <<chat, uid>> pairs the history of reads is kept for
ReadPointKeys ==
    {v \in ChatIds \X Users : v[2] \in ParticipantsOf(v[1])}
    \cup {<<generateChatId(p[1], p[2]), u>> : p \in MalformedPairs, u \in {UA, EmptyId}}

(***************************************************************************)
(* Firestore maps ({ [uid]: value }) are functions on the keys present.    *)
(***************************************************************************)
EmptyMap == << >>

MapGet(m, k, default) == IF k \in DOMAIN m THEN m[k] ELSE default

\* field-level merge of a map field: the keys written win, the others stay
MapMerge(old, new) ==
    [k \in (DOMAIN old) \cup (DOMAIN new) |-> IF k \in DOMAIN new THEN new[k] ELSE old[k]]

\* the key is kept, with a time in the past, instead of being removed
MapRemoveKeepsKey(m, k) == [x \in DOMAIN m |-> IF x = k THEN 0 ELSE m[x]]

MapRemove(m, k) == [x \in (DOMAIN m) \ {k} |-> m[x]]

\* useChats after its first effects ran for a signed-in user: mounted, one listener on
\* the chats query, which unsubscribeRef tears down; a listener is named by the least
\* number no listener of the instance has
FirstSubscription ==
    [isMounted |-> TRUE, signedIn |-> TRUE, active |-> {1}, unsubscribe |-> 1,
     error |-> FALSE, dropped |-> FALSE]

\* AuthForm as it is first rendered
NoForm == [username |-> << >>, usernameAvailable |-> "null", timeout |-> FALSE]

VARIABLES
    chatDocs,      \* collection "chats": chat id -> Chat document, for the documents that exist
    messageDocs,   \* the "messages" sub-collections: message id -> Message document
    clock,         \* the server clock serverTimestamp() resolves to at commit
    nextMsgId,     \* the next document id addDoc assigns
    calls,         \* the calls in flight, each at its next store round-trip
    started,       \* number of calls started so far
    failures,      \* number of store calls that have failed so far
    loading,       \* useChats: loading
    chats,         \* useChats: ids of the chats in the list last delivered
    timer,         \* useChats: the createTestChatIfNeeded timeout is pending
    subscription,  \* useChats: isMountedRef, unsubscribeRef, error, the listeners it has
    readPoint,     \* history: <<chat, uid>> -> id of the last message uid has read up through
    sentLog,       \* history: message id -> the message as addDoc wrote it
    deletedIds,    \* history: ids of the messages deleteMessage or deleteChat deleted
    win,           \* history: the current window of overlapping sends
    settled,       \* history: how the call that settled last ended for its caller
    view,          \* ChatView of the session of UA on the conversation with UB
    probe,         \* a message snapshot and a viewer, and the status rendered for them
    userDocs,      \* collection "users": uid -> the username of the profile document
    authForm       \* AuthForm of each session: username, usernameAvailable, pending timeout

vars == <<chatDocs, messageDocs, clock, nextMsgId, calls, started, failures,
          loading, chats, timer, subscription, readPoint, sentLog, deletedIds, win, settled, view, probe,
          userDocs, authForm>>

hook == <<loading, chats, timer, subscription>>

history == <<readPoint, sentLog, deletedIds, win, settled>>

signup == <<userDocs, authForm>>

front == <<view, probe, signup>>

Init ==
    /\ chatDocs = EmptyMap
    /\ messageDocs = EmptyMap
    /\ clock = 0
    /\ nextMsgId = 1
    /\ calls = {}
    /\ started = 0
    /\ failures = 0
    /\ loading = TRUE
    /\ chats = {}
    /\ timer = FALSE
    /\ subscription = FirstSubscription
    /\ readPoint = [k \in ReadPointKeys |-> 0]
    /\ sentLog = EmptyMap
    /\ deletedIds = {}
    /\ win = [sends |-> 0, peak |-> 0, base |-> 0]
    /\ settled = [id |-> 0, kind |-> "", failed |-> FALSE, result |-> ""]
    /\ view = [instance |-> 0, mounted |-> FALSE, isTyping |-> FALSE, timeout |-> FALSE,
               messages |-> EmptyMap, loading |-> TRUE, listening |-> FALSE,
               markDue |-> FALSE, newMessage |-> "", sending |-> FALSE,
               messageText |-> "", awaiting |-> "", awaited |-> 0, idle |-> 0]
    /\ probe = [message |-> EmptyMap, viewer |-> UA, status |-> ""]
    /\ userDocs = EmptyMap
    /\ authForm = [u \in {UA, UB} |-> NoForm]

(***************************************************************************)
(* Calls in flight.                                                        *)
(***************************************************************************)
Quiescent == calls = {}

SendsInFlight == {c \in calls : c.kind = "sendMessage"}

\* the messages of one chat's "messages" sub-collection
MessagesOf(chatId) == {id \in DOMAIN messageDocs : messageDocs[id].chatId = chatId}

\* unreadCount[uid] as the list reads it: chat.unreadCount?.[userId] || 0
UnreadOf(chatId, uid) ==
    IF chatId \in DOMAIN chatDocs THEN MapGet(chatDocs[chatId].unreadCount, uid, 0) ELSE 0

\* a call as it starts; unreadAtStart is the unreadCount of the receiver at that moment
Call(kind, pc, userId, receiverId, chatId, text) ==
    [id |-> started + 1, kind |-> kind, pc |-> pc, userId |-> userId,
     receiverId |-> receiverId, chatId |-> chatId, text |-> text,
     unread |-> EmptyMap, docs |-> {}, upTo |-> nextMsgId - 1, failed |-> FALSE,
     typing |-> FALSE, unreadAtStart |-> UnreadOf(chatId, receiverId)]

\* messages of the other participant after the last one uid has read up through
TrueUnread(chatId, uid) ==
    Cardinality({id \in MessagesOf(chatId) :
                    messageDocs[id].senderId # uid /\ id > readPoint[<<chatId, uid>>]})

Remove(call) == calls \ {call}

\* every catch rethrows: a call in which a store call failed rejects
SettleRethrows(id, kind, failed, ok) ==
    [id |-> id, kind |-> kind, failed |-> failed,
     result |-> IF failed THEN "rejected" ELSE "resolved"]

\* a call settles: its promise resolves, or rejects with the error it rethrows; failed
\* tells whether a store call inside it failed
Settle(id, kind, failed, ok) ==
    [id |-> id, kind |-> kind, failed |-> failed,
     result |-> IF ok THEN "resolved" ELSE "rejected"]

Advance(call, next) == (calls \ {call}) \cup {next}

(***************************************************************************)
(* sendMessage: addDoc, then getDoc, then setDoc with merge.               *)
(***************************************************************************)
\* messageData without the sender's own readBy entry
messageDataUnread(text, senderId, chatId, now) ==
    [text |-> text, senderId |-> senderId, senderName |-> NameOf(senderId),
     timestamp |-> now, chatId |-> chatId,
     readBy |-> EmptyMap,
     delivered |-> FALSE, edited |-> FALSE]

\* messageData of a message that is marked delivered as it is written
messageDataDelivered(text, senderId, chatId, now) ==
    [text |-> text, senderId |-> senderId, senderName |-> NameOf(senderId),
     timestamp |-> now, chatId |-> chatId,
     readBy |-> [u \in {senderId} |-> now],
     delivered |-> TRUE, edited |-> FALSE]

messageData(text, senderId, chatId, now) ==
    [text |-> text, senderId |-> senderId, senderName |-> NameOf(senderId),
     timestamp |-> now, chatId |-> chatId,
     readBy |-> [u \in {senderId} |-> now],
     delivered |-> FALSE, edited |-> FALSE]

\* the window of overlapping sends a starting send opens or joins
WindowOnSend(chatId, receiverId) ==
    IF SendsInFlight = {}
    THEN [sends |-> 1, peak |-> 1,
          base |-> TrueUnread(chatId, receiverId) - UnreadOf(chatId, receiverId)]
    ELSE [sends |-> win.sends + 1,
          peak |-> IF Cardinality(SendsInFlight) + 1 > win.peak
                   THEN Cardinality(SendsInFlight) + 1 ELSE win.peak,
          base |-> win.base]

\* await addDoc(messagesRef, messageData)
SendAddDoc(senderId, receiverId, text, ok) ==
    LET chatId == generateChatId(senderId, receiverId)
        now == clock + 1
    IN  /\ started' = started + 1
        /\ IF ok
           THEN /\ messageDocs' = MapMerge(messageDocs,
                      [i \in {nextMsgId} |-> messageData(text, senderId, chatId, now)])
                /\ sentLog' = MapMerge(sentLog,
                      [i \in {nextMsgId} |-> messageData(text, senderId, chatId, now)])
                /\ nextMsgId' = nextMsgId + 1
                /\ clock' = now
                /\ calls' = calls \cup
                      {Call("sendMessage", "getDoc", senderId, receiverId, chatId, text)}
                /\ readPoint' = [readPoint EXCEPT ![<<chatId, senderId>>] = nextMsgId]
                /\ win' = WindowOnSend(chatId, receiverId)
                /\ UNCHANGED <<failures, settled>>
           ELSE /\ failures' = failures + 1
                /\ settled' = Settle(started + 1, "sendMessage", TRUE, FALSE)
                /\ UNCHANGED <<messageDocs, sentLog, nextMsgId, clock, calls, readPoint, win>>
        /\ UNCHANGED <<chatDocs, hook, front, deletedIds>>

\* currentUnreadCount without the reset of the sender's own count
currentUnreadCountKeepsSender(readOk, chatId, senderId, receiverId) ==
    IF readOk /\ chatId \in DOMAIN chatDocs
    THEN MapMerge(chatDocs[chatId].unreadCount,
                  [u \in {receiverId} |->
                      MapGet(chatDocs[chatId].unreadCount, receiverId, 0) + 1])
    ELSE [u \in {senderId, receiverId} |-> IF u = senderId THEN 0 ELSE 1]

\* currentUnreadCount with sender and receiver taken for each other
currentUnreadCountSwapped(readOk, chatId, senderId, receiverId) ==
    IF readOk /\ chatId \in DOMAIN chatDocs
    THEN MapMerge(chatDocs[chatId].unreadCount,
                  [u \in {senderId, receiverId} |->
                      IF u = receiverId THEN 0
                      ELSE MapGet(chatDocs[chatId].unreadCount, senderId, 0) + 1])
    ELSE [u \in {senderId, receiverId} |-> IF u = receiverId THEN 0 ELSE 1]

\* currentUnreadCount that never finds the document: chatDoc.exists read as a property
currentUnreadCountNeverExists(readOk, chatId, senderId, receiverId) ==
    [u \in {senderId, receiverId} |-> IF u = senderId THEN 0 ELSE 1]

\* lines 79-94: the unread counts the send is going to write
currentUnreadCount(readOk, chatId, senderId, receiverId) ==
    IF readOk /\ chatId \in DOMAIN chatDocs
    THEN MapMerge(chatDocs[chatId].unreadCount,
                  [u \in {senderId, receiverId} |->
                      IF u = senderId THEN 0
                      ELSE MapGet(chatDocs[chatId].unreadCount, receiverId, 0) + 1])
    ELSE [u \in {senderId, receiverId} |-> IF u = senderId THEN 0 ELSE 1]

\* const chatDoc = await getDoc(chatRef), and the catch around it
SendGetDoc(call, ok) ==
    /\ call \in calls
    /\ call.kind = "sendMessage" /\ call.pc = "getDoc"
    /\ IF ok THEN UNCHANGED failures ELSE failures' = failures + 1
    /\ calls' = Advance(call,
          [call EXCEPT !.pc = "setDoc",
                       !.failed = ~ok,
                       !.unread = currentUnreadCount(ok, call.chatId, call.userId,
                                                     call.receiverId)])
    /\ UNCHANGED <<chatDocs, messageDocs, clock, nextMsgId, started, hook, front, history>>

\* chatData whose participants are the sender alone
chatDataSenderOnly(senderId, receiverId, text, unread, now) ==
    [participants |-> <<senderId>>,
     participantNames |-> [u \in {senderId, receiverId} |-> NameOf(u)],
     participantAvatars |-> [u \in {senderId, receiverId} |-> ""],
     lastMessage |-> text,
     lastMessageTime |-> now,
     lastMessageSender |-> senderId,
     unreadCount |-> unread,
     typingUsers |-> EmptyMap,
     createdAt |-> now,
     totalMessages |-> 1]

chatData(senderId, receiverId, text, unread, now) ==
    [participants |-> <<senderId, receiverId>>,
     participantNames |-> [u \in {senderId, receiverId} |-> NameOf(u)],
     participantAvatars |-> [u \in {senderId, receiverId} |-> ""],
     lastMessage |-> text,
     lastMessageTime |-> now,
     lastMessageSender |-> senderId,
     unreadCount |-> unread,
     typingUsers |-> EmptyMap,
     createdAt |-> now,
     totalMessages |-> 1]

\* a map field under { merge: true }: its keys are merged, an empty map replaces the field
MergeMapField(old, new) == IF DOMAIN new = {} THEN new ELSE MapMerge(old, new)

\* increment(n) on a field of a document that may not exist yet
Increment(exists, old, n) == IF exists THEN old + n ELSE n

\* setDoc(chatRef, chatData, { merge: true }), totalMessages being increment(1)
SetDocMerge(chatId, data) ==
    IF chatId \in DOMAIN chatDocs
    THEN LET old == chatDocs[chatId]
         IN  [participants |-> data.participants,
              participantNames |-> MergeMapField(old.participantNames, data.participantNames),
              participantAvatars |->
                  MergeMapField(old.participantAvatars, data.participantAvatars),
              lastMessage |-> data.lastMessage,
              lastMessageTime |-> data.lastMessageTime,
              lastMessageSender |-> data.lastMessageSender,
              unreadCount |-> MergeMapField(old.unreadCount, data.unreadCount),
              typingUsers |-> MergeMapField(old.typingUsers, data.typingUsers),
              createdAt |-> data.createdAt,
              totalMessages |-> Increment(TRUE, old.totalMessages, data.totalMessages)]
    ELSE [data EXCEPT !.totalMessages = Increment(FALSE, 0, data.totalMessages)]

\* await setDoc(chatRef, chatData, { merge: true }); a failure is rethrown
SendSetDoc(call, ok) ==
    /\ call \in calls
    /\ call.kind = "sendMessage" /\ call.pc = "setDoc"
    /\ calls' = Remove(call)
    /\ settled' = Settle(call.id, "sendMessage", call.failed \/ ~ok, ok)
    /\ IF ok
       THEN /\ chatDocs' = MapMerge(chatDocs,
                  [c \in {call.chatId} |->
                      SetDocMerge(call.chatId,
                          chatData(call.userId, call.receiverId, call.text,
                                   call.unread, clock + 1))])
            /\ clock' = clock + 1
            /\ UNCHANGED failures
       ELSE /\ failures' = failures + 1
            /\ UNCHANGED <<chatDocs, clock>>
    /\ UNCHANGED <<messageDocs, nextMsgId, started, hook, front, readPoint, sentLog, deletedIds, win>>

(***************************************************************************)
(* markMessagesAsRead: updateDoc, then getDocs, then batch.commit; every   *)
(* failure ends the call in its catch.                                     *)
(***************************************************************************)
\* the users with a session, and the conversation views they can open
Sessions == {UA, UB}

Views ==
    {v \in ChatIds \X Sessions :
        \E p \in SendPairs : v[1] = generateChatId(p[1], p[2]) /\ v[2] \in {p[1], p[2]}}

\* updateDoc(ref, { field: { [key]: value } }): the map is replaced, not merged into
UpdateNestedReplacesMap(doc, field, key, value) ==
    [doc EXCEPT ![field] = [k \in {key} |-> value]]

\* updateDoc(ref, { [`field.${key}`]: value }): rejects when the document does not exist
UpdateNested(doc, field, key, value) ==
    [doc EXCEPT ![field] = MapMerge(doc[field], [k \in {key} |-> value])]

\* await updateDoc(chatRef, { [`unreadCount.${userId}`]: 0 })
MarkUpdateDoc(chatId, userId, ok) ==
    /\ started' = started + 1
    /\ IF ok THEN UNCHANGED failures ELSE failures' = failures + 1
    /\ IF ok /\ chatId \in DOMAIN chatDocs
       THEN /\ chatDocs' = [chatDocs EXCEPT
                  ![chatId] = UpdateNested(chatDocs[chatId], "unreadCount", userId, 0)]
            /\ calls' = calls \cup
                  {Call("markMessagesAsRead", "getDocs", userId, userId, chatId, "")}
            /\ readPoint' = [readPoint EXCEPT ![<<chatId, userId>>] = nextMsgId - 1]
            /\ UNCHANGED settled
       ELSE /\ settled' = Settle(started + 1, "markMessagesAsRead", TRUE, TRUE)
            /\ UNCHANGED <<chatDocs, calls, readPoint>>
    /\ UNCHANGED <<messageDocs, clock, nextMsgId, hook, front, sentLog, deletedIds, win>>

\* the batch filled with every message of the other participant, read or not
unreadQueryAll(chatId, userId) ==
    {id \in MessagesOf(chatId) : messageDocs[id].senderId # userId}

\* the messages the batch is going to update: not sent by userId, without readBy[userId]
unreadQuery(chatId, userId) ==
    {id \in MessagesOf(chatId) :
        /\ messageDocs[id].senderId # userId
        /\ userId \notin DOMAIN messageDocs[id].readBy}

\* const snapshot = await getDocs(unreadQuery), and the forEach that fills the batch
MarkGetDocs(call, ok) ==
    /\ call \in calls
    /\ call.kind = "markMessagesAsRead" /\ call.pc = "getDocs"
    /\ IF ok
       THEN /\ calls' = Advance(call,
                  [call EXCEPT !.pc = "commit",
                               !.docs = unreadQuery(call.chatId, call.userId)])
            /\ UNCHANGED <<failures, settled>>
       ELSE /\ failures' = failures + 1
            /\ calls' = Remove(call)
            /\ settled' = Settle(call.id, "markMessagesAsRead", TRUE, TRUE)
    /\ UNCHANGED <<chatDocs, messageDocs, clock, nextMsgId, started, hook, front,
                   readPoint, sentLog, deletedIds, win>>

\* batch.set(messageRef, { readBy: { [userId]: serverTimestamp() } }): the document is replaced
BatchSetReadBy(docs, userId, now) ==
    [id \in DOMAIN messageDocs |->
        IF id \in docs
        THEN [messageDocs[id] EXCEPT !.text = "", !.senderId = userId,
                                     !.readBy = [k \in {userId} |-> now]]
        ELSE messageDocs[id]]

\* the update writes readBy as a whole: the entries of the other users are dropped
BatchReplaceReadBy(docs, userId, now) ==
    [id \in DOMAIN messageDocs |->
        IF id \in docs
        THEN [messageDocs[id] EXCEPT !.readBy = [k \in {userId} |-> now]]
        ELSE messageDocs[id]]

\* batch.update(messageRef, { [`readBy.${userId}`]: serverTimestamp() }) on every doc of the batch
BatchUpdateReadBy(docs, userId, now) ==
    [id \in DOMAIN messageDocs |->
        IF id \in docs
        THEN UpdateNested(messageDocs[id], "readBy", userId, now)
        ELSE messageDocs[id]]

\* await batch.commit(): all or nothing, and an update of a deleted message rejects
MarkCommit(call, ok) ==
    /\ call \in calls
    /\ call.kind = "markMessagesAsRead" /\ call.pc = "commit"
    /\ calls' = Remove(call)
    /\ IF ok THEN UNCHANGED failures ELSE failures' = failures + 1
    /\ IF ok /\ call.docs \subseteq DOMAIN messageDocs /\ call.docs # {}
       THEN /\ messageDocs' = BatchUpdateReadBy(call.docs, call.userId, clock + 1)
            /\ clock' = clock + 1
       ELSE UNCHANGED <<messageDocs, clock>>
    /\ settled' = Settle(call.id, "markMessagesAsRead",
                         ~(ok /\ call.docs \subseteq DOMAIN messageDocs), TRUE)
    /\ UNCHANGED <<chatDocs, nextMsgId, started, hook, front, readPoint, sentLog, deletedIds, win>>

(***************************************************************************)
(* deleteMessage, deleteChat, setTypingStatus.                             *)
(***************************************************************************)
\* await deleteDoc(messageRef); a failure is rethrown
DeleteMessage(messageId, ok) ==
    /\ started' = started + 1
    /\ messageId \in DOMAIN messageDocs
    /\ settled' = Settle(started + 1, "deleteMessage", ~ok, ok)
    /\ IF ok
       THEN /\ messageDocs' = MapRemove(messageDocs, messageId)
            /\ deletedIds' = deletedIds \cup {messageId}
            /\ UNCHANGED failures
       ELSE /\ failures' = failures + 1
            /\ UNCHANGED <<messageDocs, deletedIds>>
    /\ UNCHANGED <<chatDocs, clock, nextMsgId, calls, hook, front, readPoint, sentLog, win>>

\* const messagesSnapshot = await getDocs(messagesRef), and the forEach that fills the batch
DeleteChatGetDocs(chatId, ok) ==
    /\ started' = started + 1
    /\ IF ok
       THEN /\ calls' = calls \cup
                  {[Call("deleteChat", "commit", UA, UA, chatId, "")
                        EXCEPT !.docs = MessagesOf(chatId)]}
            /\ UNCHANGED <<failures, settled>>
       ELSE /\ failures' = failures + 1
            /\ settled' = Settle(started + 1, "deleteChat", TRUE, FALSE)
            /\ UNCHANGED calls
    /\ UNCHANGED <<chatDocs, messageDocs, clock, nextMsgId, hook, front,
                   readPoint, sentLog, deletedIds, win>>

\* a commit that, when it fails, has deleted the messages and left the chat document
DeleteChatCommitPartial(call, ok) ==
    /\ call \in calls
    /\ call.kind = "deleteChat" /\ call.pc = "commit"
    /\ calls' = Remove(call)
    /\ settled' = Settle(call.id, "deleteChat", ~ok, ok)
    /\ messageDocs' = [id \in (DOMAIN messageDocs) \ call.docs |-> messageDocs[id]]
    /\ deletedIds' = deletedIds \cup (call.docs \cap DOMAIN messageDocs)
    /\ IF ok
       THEN /\ chatDocs' = MapRemove(chatDocs, call.chatId)
            /\ UNCHANGED failures
       ELSE /\ failures' = failures + 1
            /\ UNCHANGED chatDocs
    /\ UNCHANGED <<clock, nextMsgId, started, hook, front, readPoint, sentLog, win>>

\* await batch.commit(): the messages of the snapshot and the chat document, all or nothing
DeleteChatCommit(call, ok) ==
    /\ call \in calls
    /\ call.kind = "deleteChat" /\ call.pc = "commit"
    /\ calls' = Remove(call)
    /\ settled' = Settle(call.id, "deleteChat", ~ok, ok)
    /\ IF ok
       THEN /\ messageDocs' = [id \in (DOMAIN messageDocs) \ call.docs |-> messageDocs[id]]
            /\ chatDocs' = MapRemove(chatDocs, call.chatId)
            /\ deletedIds' = deletedIds \cup (call.docs \cap DOMAIN messageDocs)
            /\ UNCHANGED failures
       ELSE /\ failures' = failures + 1
            /\ UNCHANGED <<messageDocs, chatDocs, deletedIds>>
    /\ UNCHANGED <<clock, nextMsgId, started, hook, front, readPoint, sentLog, win>>

\* updateDoc(chatRef, { [`typingUsers.${userId}`]: serverTimestamp() | deleteField() })
SetTypingStatus(chatId, userId, isTyping, ok) ==
    /\ started' = started + 1
    /\ IF ok THEN UNCHANGED failures ELSE failures' = failures + 1
    /\ IF ok /\ chatId \in DOMAIN chatDocs
       THEN IF isTyping
            THEN /\ chatDocs' = [chatDocs EXCEPT
                       ![chatId] = UpdateNested(chatDocs[chatId], "typingUsers", userId,
                                                clock + 1)]
                 /\ clock' = clock + 1
            ELSE /\ chatDocs' = [chatDocs EXCEPT
                       ![chatId].typingUsers = MapRemove(chatDocs[chatId].typingUsers, userId)]
                 /\ UNCHANGED clock
       ELSE UNCHANGED <<chatDocs, clock>>
    /\ settled' = Settle(started + 1, "setTypingStatus",
                         ~(ok /\ chatId \in DOMAIN chatDocs), TRUE)
    /\ UNCHANGED <<messageDocs, nextMsgId, calls, hook, front, readPoint, sentLog, deletedIds, win>>

(***************************************************************************)
(* ChatView of UA on the conversation with UB: the typing indicator logic  *)
(* and the clean-up effect.                                                *)
(***************************************************************************)
\* what the textarea holds after a change
InputValues == {"", " ", "hi "}

\* value.trim() on the values the textarea holds
Trim(value) == CASE value = " " -> ""
                 [] value = "hi " -> "hi"
                 [] OTHER -> value

\* handleTyping(typing) up to its await: setTypingStatus and the updateDoc in it; what
\* follows the await is the call left in flight
handleTyping(others, typing, ok) ==
    /\ started' = started + 1
    /\ IF ok THEN UNCHANGED failures ELSE failures' = failures + 1
    /\ IF ok /\ chatAB \in DOMAIN chatDocs
       THEN IF typing
            THEN /\ chatDocs' = [chatDocs EXCEPT
                       ![chatAB] = UpdateNested(chatDocs[chatAB], "typingUsers", UA, clock + 1)]
                 /\ clock' = clock + 1
            ELSE /\ chatDocs' = [chatDocs EXCEPT
                       ![chatAB].typingUsers = MapRemove(chatDocs[chatAB].typingUsers, UA)]
                 /\ UNCHANGED clock
       ELSE UNCHANGED <<chatDocs, clock>>
    /\ settled' = Settle(started + 1, "setTypingStatus",
                         ~(ok /\ chatAB \in DOMAIN chatDocs), TRUE)
    /\ calls' = others \cup
          {[Call("handleTyping", "setIsTyping", UA, UB, chatAB, "") EXCEPT !.typing = typing]}
    /\ UNCHANGED <<messageDocs, nextMsgId, hook, readPoint, sentLog, deletedIds, win, probe, signup>>

\* the view is opened: useMessages subscribes to the messages of the chat, and the
\* mark-as-read effect is due for its first run
mountChatView ==
    /\ view.instance = 0
    /\ view' = [instance |-> 1, mounted |-> TRUE, isTyping |-> FALSE, timeout |-> FALSE,
                messages |-> EmptyMap, loading |-> TRUE, listening |-> TRUE,
                markDue |-> TRUE, newMessage |-> "", sending |-> FALSE,
                messageText |-> "", awaiting |-> "", awaited |-> 0, idle |-> 0]
    /\ UNCHANGED <<chatDocs, messageDocs, clock, nextMsgId, calls, started, failures,
                   hook, history, probe, signup>>

\* handleInputChange: setNewMessage(value), handleTyping(true) if there is text and
\* isTyping is not set, and the timeout of handleTyping(false) is set anew; the textarea
\* is disabled while a send is under way
handleInputChange(value, ok) ==
    /\ view.mounted /\ ~view.sending
    /\ IF Trim(value) # "" /\ ~view.isTyping
       THEN handleTyping(calls, TRUE, ok)
       ELSE /\ ok
            /\ UNCHANGED <<chatDocs, messageDocs, clock, nextMsgId, calls, started, failures,
                           hook, history, probe, signup>>
    /\ view' = [view EXCEPT !.newMessage = value, !.timeout = TRUE, !.idle = 0]

\* the timeout set by handleInputChange fires: handleTyping(false)
typingTimeout(ok) ==
    /\ view.timeout
    /\ handleTyping(calls, FALSE, ok)
    /\ view' = [view EXCEPT !.timeout = FALSE]

\* handleTyping after its await: setIsTyping(typing). A change of isTyping runs the
\* clean-up of the effect with the isTyping it closed over; on an unmounted view the
\* state update does nothing
setIsTyping(call, ok) ==
    /\ call \in calls
    /\ call.kind = "handleTyping" /\ call.pc = "setIsTyping"
    /\ IF view.mounted /\ call.typing # view.isTyping
       THEN /\ IF view.isTyping
               THEN handleTyping(Remove(call), FALSE, ok)
               ELSE /\ ok
                    /\ calls' = Remove(call)
                    /\ UNCHANGED <<chatDocs, messageDocs, clock, nextMsgId, started, failures,
                                   hook, history, probe, signup>>
            /\ view' = [view EXCEPT !.isTyping = call.typing, !.timeout = FALSE]
       ELSE /\ ok
            /\ calls' = Remove(call)
            /\ UNCHANGED <<chatDocs, messageDocs, clock, nextMsgId, started, failures,
                           hook, history, front>>

\* the view is torn down: the clean-up of the effect, and useMessages unsubscribes
unmountChatView(ok) ==
    /\ view.mounted
    /\ IF view.isTyping
       THEN handleTyping(calls, FALSE, ok)
       ELSE /\ ok
            /\ UNCHANGED <<chatDocs, messageDocs, clock, nextMsgId, calls, started, failures,
                           hook, history, probe, signup>>
    /\ view' = [view EXCEPT !.mounted = FALSE, !.timeout = FALSE, !.listening = FALSE,
                            !.markDue = FALSE]

\* handleSendMessage from setNewMessage("") on: sendMessage and the addDoc in it; if the
\* addDoc fails sendMessage rejects at once, and the catch and the finally run
sendFromView(text, ok) ==
    LET now == clock + 1
    IN  /\ started' = started + 1
        /\ IF ok
           THEN /\ messageDocs' = MapMerge(messageDocs,
                      [i \in {nextMsgId} |-> messageData(text, UA, chatAB, now)])
                /\ sentLog' = MapMerge(sentLog,
                      [i \in {nextMsgId} |-> messageData(text, UA, chatAB, now)])
                /\ nextMsgId' = nextMsgId + 1
                /\ clock' = now
                /\ calls' = calls \cup {Call("sendMessage", "getDoc", UA, UB, chatAB, text)}
                /\ readPoint' = [readPoint EXCEPT ![<<chatAB, UA>>] = nextMsgId]
                /\ win' = WindowOnSend(chatAB, UB)
                /\ view' = [view EXCEPT !.newMessage = IF view.mounted THEN "" ELSE @,
                                        !.sending = IF view.mounted THEN TRUE ELSE @,
                                        !.messageText = text,
                                        !.awaiting = "sendMessage",
                                        !.awaited = started + 1]
                /\ UNCHANGED <<failures, settled>>
           ELSE /\ failures' = failures + 1
                /\ settled' = Settle(started + 1, "sendMessage", TRUE, FALSE)
                /\ view' = [view EXCEPT !.newMessage = IF view.mounted THEN text ELSE @,
                                        !.sending = IF view.mounted THEN FALSE ELSE @,
                                        !.messageText = text,
                                        !.awaiting = "",
                                        !.awaited = 0]
                /\ UNCHANGED <<messageDocs, sentLog, nextMsgId, clock, calls, readPoint, win>>
        /\ UNCHANGED <<chatDocs, hook, deletedIds, probe, signup>>

\* handleSendMessage up to its first await: with isTyping set it awaits handleTyping(false)
\* before it clears the input
handleSendMessage(ok) ==
    /\ view.mounted /\ ~view.sending
    /\ Trim(view.newMessage) # ""
    /\ IF view.isTyping
       THEN /\ handleTyping(calls, FALSE, ok)
            /\ view' = [view EXCEPT !.sending = TRUE,
                                    !.messageText = Trim(view.newMessage),
                                    !.awaiting = "handleTyping",
                                    !.awaited = started + 1]
       ELSE sendFromView(Trim(view.newMessage), ok)

\* handleSendMessage after await handleTyping(false)
sendAfterTyping(ok) ==
    /\ view.awaiting = "handleTyping"
    /\ \A c \in calls : c.id # view.awaited
    /\ sendFromView(view.messageText, ok)

\* the sendMessage that handleSendMessage awaits has settled
SendSettled == view.awaiting = "sendMessage" /\ settled.id = view.awaited

\* the catch without setNewMessage(messageText)
sendSettledDropsText ==
    /\ SendSettled
    /\ view' = [view EXCEPT !.sending = IF view.mounted THEN FALSE ELSE @,
                            !.awaiting = "",
                            !.awaited = 0]
    /\ UNCHANGED <<chatDocs, messageDocs, clock, nextMsgId, calls, started, failures,
                   hook, history, probe, signup>>

\* handleSendMessage after await sendMessage: the catch restores the text, the finally
\* ends the sending; on an unmounted view the state updates do nothing
sendSettled ==
    /\ SendSettled
    /\ view' = [view EXCEPT !.newMessage = IF view.mounted /\ settled.result = "rejected"
                                           THEN view.messageText ELSE @,
                            !.sending = IF view.mounted THEN FALSE ELSE @,
                            !.awaiting = "",
                            !.awaited = 0]
    /\ UNCHANGED <<chatDocs, messageDocs, clock, nextMsgId, calls, started, failures,
                   hook, history, probe, signup>>

(***************************************************************************)
(* AuthForm of a signed-in user without a profile: the username field, its *)
(* delayed availability check, and the creation of the profile.            *)
(***************************************************************************)
\* what is typed into the username field: "bob", "Bob!", "amy" and "al"
UsernameInputs == {<<98, 111, 98>>, <<66, 111, 98, 33>>, <<97, 109, 121>>, <<97, 108>>}

\* toLowerCase on one code unit
Lower(c) == IF c >= 65 /\ c <= 90 THEN c + 32 ELSE c

\* the code unit is in [a-zA-Z0-9_]
WordChar(c) ==
    \/ c >= 97 /\ c <= 122
    \/ c >= 65 /\ c <= 90
    \/ c >= 48 /\ c <= 57
    \/ c = 95

\* e.target.value.toLowerCase().replace(/[^a-zA-Z0-9_]/g, "")
NormaliseUsername(raw) == SelectSeq([i \in 1..Len(raw) |-> Lower(raw[i])], WordChar)

\* handleUsernameChange: the field is set and usernameAvailable reset; a changed username
\* runs the effect again, which clears the pending timeout and sets a new one
handleUsernameChange(u, raw) ==
    /\ u \notin DOMAIN userDocs
    /\ LET value == NormaliseUsername(raw)
       IN  authForm' = [authForm EXCEPT ![u] =
               [username |-> value,
                usernameAvailable |-> "null",
                timeout |-> IF value = authForm[u].username THEN authForm[u].timeout
                            ELSE value # << >>]]
    /\ UNCHANGED <<chatDocs, messageDocs, clock, nextMsgId, calls, started, failures,
                   hook, history, view, probe, userDocs>>

\* the timeout fires: validateUsername(username) up to its await, checkUsernameExists and
\* the getDocs in it; what follows the await is the call left in flight
validateUsername(u, ok) ==
    /\ authForm[u].timeout
    /\ LET value == authForm[u].username
       IN  IF Len(value) < 3
           THEN /\ ok
                /\ authForm' = [authForm EXCEPT ![u].usernameAvailable = "null",
                                                ![u].timeout = FALSE]
                /\ UNCHANGED <<calls, started, failures>>
           ELSE IF \E i \in 1..Len(value) : ~WordChar(value[i])
           THEN /\ ok
                /\ authForm' = [authForm EXCEPT ![u].usernameAvailable = "false",
                                                ![u].timeout = FALSE]
                /\ UNCHANGED <<calls, started, failures>>
           ELSE /\ authForm' = [authForm EXCEPT ![u].timeout = FALSE]
                /\ started' = started + 1
                /\ IF ok THEN UNCHANGED failures ELSE failures' = failures + 1
                /\ calls' = calls \cup
                      {[Call("validateUsername", "setUsernameAvailable", u, u, EmptyId, value)
                          EXCEPT !.docs = IF ok
                                          THEN {x \in DOMAIN userDocs : userDocs[x] = value}
                                          ELSE {},
                                 !.failed = ~ok]}
    /\ UNCHANGED <<chatDocs, messageDocs, clock, nextMsgId, hook, history, view, probe,
                   userDocs>>

\* validateUsername after its await: usernameAvailable is set from the answer, whatever
\* the field holds by now; on a form no longer rendered the state update does nothing
setUsernameAvailable(call) ==
    /\ call \in calls
    /\ call.kind = "validateUsername"
    /\ calls' = Remove(call)
    /\ authForm' = IF call.userId \in DOMAIN userDocs THEN authForm
                   ELSE [authForm EXCEPT ![call.userId].usernameAvailable =
                            IF call.failed \/ call.docs # {} THEN "false" ELSE "true"]
    /\ UNCHANGED <<chatDocs, messageDocs, clock, nextMsgId, started, failures,
                   hook, history, view, probe, userDocs>>

\* handleUsernameSubmit: createUserProfile and the setDoc in it; with the profile set the
\* form is no longer rendered
handleUsernameSubmit(u, ok) ==
    /\ u \notin DOMAIN userDocs
    /\ authForm[u].username # << >>
    /\ authForm[u].usernameAvailable = "true"
    /\ started' = started + 1
    /\ settled' = Settle(started + 1, "createUserProfile", ~ok, TRUE)
    /\ IF ok
       THEN /\ userDocs' = MapMerge(userDocs, [x \in {u} |-> authForm[u].username])
            /\ authForm' = [authForm EXCEPT ![u].timeout = FALSE]
            /\ UNCHANGED failures
       ELSE /\ failures' = failures + 1
            /\ UNCHANGED <<userDocs, authForm>>
    /\ UNCHANGED <<chatDocs, messageDocs, clock, nextMsgId, calls, hook,
                   readPoint, sentLog, deletedIds, win, view, probe>>

(***************************************************************************)
(* useMessages and the mark-as-read effect of the same view.               *)
(***************************************************************************)
\* what a snapshot of the messages query shows the view: the messages and their readBy
messagesSnapshot(chatId) ==
    [id \in MessagesOf(chatId) |-> messageDocs[id].readBy]

\* a snapshot of the messages query reaches handleMessagesUpdate; the new array makes
\* the mark-as-read effect due
handleMessagesUpdate ==
    /\ view.mounted /\ view.listening
    /\ view.loading \/ view.messages # messagesSnapshot(chatAB)
    /\ view' = [view EXCEPT !.messages = messagesSnapshot(chatAB), !.loading = FALSE,
                            !.markDue = TRUE]
    /\ UNCHANGED <<chatDocs, messageDocs, clock, nextMsgId, calls, started, failures,
                   hook, history, probe, signup>>

\* the messages subscription fails: its error callback hands callback([]) to the view
messagesError ==
    /\ view.mounted /\ view.listening
    /\ failures' = failures + 1
    /\ view' = [view EXCEPT !.messages = EmptyMap, !.loading = FALSE, !.markDue = TRUE,
                            !.listening = FALSE]
    /\ UNCHANGED <<chatDocs, messageDocs, clock, nextMsgId, calls, started,
                   hook, history, probe, signup>>

\* the mark-as-read effect runs, the view being at the bottom: markMessagesAsRead(chatId,
\* userProfile.uid) and the updateDoc in it
markAsReadEffect(ok) ==
    /\ view.mounted /\ view.markDue
    /\ view' = [view EXCEPT !.markDue = FALSE]
    /\ started' = started + 1
    /\ IF ok THEN UNCHANGED failures ELSE failures' = failures + 1
    /\ IF ok /\ chatAB \in DOMAIN chatDocs
       THEN /\ chatDocs' = [chatDocs EXCEPT
                  ![chatAB] = UpdateNested(chatDocs[chatAB], "unreadCount", UA, 0)]
            /\ calls' = calls \cup
                  {Call("markMessagesAsRead", "getDocs", UA, UA, chatAB, "")}
            /\ readPoint' = [readPoint EXCEPT ![<<chatAB, UA>>] = nextMsgId - 1]
            /\ UNCHANGED settled
       ELSE /\ settled' = Settle(started + 1, "markMessagesAsRead", TRUE, TRUE)
            /\ UNCHANGED <<chatDocs, calls, readPoint>>
    /\ UNCHANGED <<messageDocs, clock, nextMsgId, hook, sentLog, deletedIds, win, probe, signup>>

\* the typing set without the check of the entries' age
typingUserIdsAnyAge(chat, uid, now) ==
    {u \in DOMAIN chat.typingUsers : u # uid}

\* getTypingIndicator: the users whose typing entry the reader uid counts at time now
typingUserIds(chat, uid, now) ==
    {u \in DOMAIN chat.typingUsers :
        u # uid /\ (now - chat.typingUsers[u]) * TickMs < StaleMs}

\* wall-clock time passes
Tick ==
    /\ clock' = clock + 1
    /\ UNCHANGED <<chatDocs, messageDocs, nextMsgId, calls, started, failures,
                   hook, history, front>>

\* a second passes in the open view within which the user made an input change: the
\* timeout of handleTyping(false), set anew by that change, does not fire yet
viewTick ==
    /\ view.mounted /\ view.idle = 0
    /\ clock' = clock + 1
    /\ view' = [view EXCEPT !.idle = 1]
    /\ UNCHANGED <<chatDocs, messageDocs, nextMsgId, calls, started, failures,
                   hook, history, probe, signup>>

(***************************************************************************)
(* getMessageReadStatus, and the message snapshots it is applied to.       *)
(***************************************************************************)
\* getMessageReadStatus without the filter that leaves the viewer's own readBy entry out
getMessageReadStatusCountsViewer(message, currentUserId) ==
    IF message.senderId # currentUserId
    THEN "read"
    ELSE LET readBy == IF "readBy" \in DOMAIN message THEN message.readBy ELSE EmptyMap
         IN  IF DOMAIN readBy # {} THEN "read"
             ELSE IF "delivered" \in DOMAIN message /\ message.delivered THEN "delivered"
             ELSE "sent"

getMessageReadStatus(message, currentUserId) ==
    IF message.senderId # currentUserId
    THEN "read"
    ELSE LET readBy == IF "readBy" \in DOMAIN message THEN message.readBy ELSE EmptyMap
             otherUserIds == {uid \in DOMAIN readBy : uid # currentUserId}
         IN  IF otherUserIds # {} THEN "read"
             ELSE IF "delivered" \in DOMAIN message /\ message.delivered THEN "delivered"
             ELSE "sent"

\* a message snapshot as a listener may hand it over: readBy and delivered may be missing
Snapshot(senderId, fields, readers, delivered) ==
    [f \in {"senderId"} \cup fields |->
        IF f = "senderId" THEN senderId
        ELSE IF f = "readBy" THEN [u \in readers |-> 1]
        ELSE delivered]

Snapshots ==
    {Snapshot(senderId, fields, readers, delivered) :
        senderId \in {UA, UB}, fields \in SUBSET {"readBy", "delivered"},
        readers \in SUBSET Users, delivered \in BOOLEAN}

\* the view renders the status of the snapshot for the viewer
ReadStatus ==
    /\ probe.status = ""
    /\ probe' = [probe EXCEPT !.status = getMessageReadStatus(probe.message, probe.viewer)]
    /\ UNCHANGED <<chatDocs, messageDocs, clock, nextMsgId, calls, started, failures,
                   hook, history, view, signup>>

(***************************************************************************)
(* useChats of the session of UA, and createTestChat, which its timeout    *)
(* calls.                                                                  *)
(***************************************************************************)
\* the effect of lines 84-89 runs again when loading or chats.length changed: it clears
\* the pending timeout and sets a new one if the list is loaded and empty
TimerAfter(newLoading, newChats) ==
    IF newLoading # loading \/ Cardinality(newChats) # Cardinality(chats)
    THEN ~newLoading /\ newChats = {}
    ELSE timer

\* the chats query of subscribeToChats: where("participants", "array-contains", userId)
ChatsOf(userId) ==
    {c \in DOMAIN chatDocs :
        \E i \in 1..Len(chatDocs[c].participants) : chatDocs[c].participants[i] = userId}

\* the documents of a query snapshot in its default order, ascending by document id
RECURSIVE SnapshotDocs(_)
SnapshotDocs(ids) ==
    IF ids = {} THEN << >>
    ELSE LET first == CHOOSE c \in ids : \A d \in ids \ {c} : StrLess(c, d)
         IN  <<first>> \o SnapshotDocs(ids \ {first})

\* a.lastMessageTime?.toMillis() || 0
TimeOf(c) == chatDocs[c].lastMessageTime * TickMs

\* the comparator with the two times taken for each other: ascending
compareChatsAscending(a, b) == TimeOf(a) - TimeOf(b)

\* the comparator of chats.sort: timeB - timeA
compareChats(a, b) == TimeOf(b) - TimeOf(a)

\* Array.prototype.sort with compareChats, a stable sort: each element is put behind
\* the elements that do not compare greater than it
RECURSIVE SortChats(_)
SortChats(list) ==
    IF list = << >> THEN << >>
    ELSE LET n == Len(list)
             front1 == SortChats(SubSeq(list, 1, n - 1))
             x == list[n]
             before == {i \in 1..Len(front1) : compareChats(front1[i], x) <= 0}
             k == Cardinality({i \in 1..Len(front1) :
                                 \A j \in 1..i : j \in before})
         IN  SubSeq(front1, 1, k) \o <<x>> \o SubSeq(front1, k + 1, Len(front1))

\* the list subscribeToChats hands to its callback for a snapshot of the query
chatsDelivered(userId) ==
    SortChats(SelectSeq(SnapshotDocs(ChatsOf(userId)),
                        LAMBDA c : Len(chatDocs[c].participants) > 0))

\* if (unsubscribeRef.current) unsubscribeRef.current(): the listener the ref names is
\* torn down; null, the no-op and a listener torn down before leave the others alone
unsubscribeNothing(s) == s.active

unsubscribe(s) == s.active \ {s.unsubscribe}

\* the listener onSnapshot adds
NewListener(active) == CHOOSE n \in 1..(Cardinality(active) + 1) : n \notin active

\* the body of setupSubscription for a signed-in user: the previous listener is torn
\* down, then subscribeToChats adds one and the ref takes its unsubscribe function
Resubscribed(s) ==
    LET rest == unsubscribe(s)
    IN  [s EXCEPT !.active = rest \cup {NewListener(rest)},
                  !.unsubscribe = NewListener(rest),
                  !.error = FALSE]

\* setupSubscription, for a signed-in user, from retry or from the effect when the
\* profile object changed
setupSubscription ==
    /\ subscription.isMounted /\ subscription.signedIn
    /\ ~loading
    /\ loading' = TRUE
    /\ timer' = TimerAfter(TRUE, chats)
    /\ subscription' = Resubscribed(subscription)
    /\ UNCHANGED <<chatDocs, messageDocs, clock, nextMsgId, calls, started, failures,
                   chats, history, front>>

\* a snapshot of the chats query reaches handleChatsUpdate, from a listener of the
\* instance or, after unmount, from one torn down while the snapshot was on its way
handleChatsUpdate ==
    /\ subscription.active # {} \/ ~subscription.isMounted
    /\ IF ~subscription.isMounted
       THEN /\ subscription' = [subscription EXCEPT !.dropped = TRUE]
            /\ UNCHANGED <<loading, chats, timer>>
       ELSE /\ loading \/ chats # ChatsOf(UA) \/ subscription.error
            /\ chats' = ChatsOf(UA)
            /\ loading' = FALSE
            /\ timer' = TimerAfter(FALSE, ChatsOf(UA))
            /\ subscription' = [subscription EXCEPT !.error = FALSE]
    /\ UNCHANGED <<chatDocs, messageDocs, clock, nextMsgId, calls, started, failures,
                   history, front>>

\* the subscription fails and its error reaches handleError
handleError ==
    /\ subscription.active # {} \/ ~subscription.isMounted
    /\ failures' = failures + 1
    /\ IF ~subscription.isMounted
       THEN /\ subscription' = [subscription EXCEPT !.dropped = TRUE]
            /\ UNCHANGED <<loading, timer>>
       ELSE /\ loading' = FALSE
            /\ timer' = TimerAfter(FALSE, chats)
            /\ subscription' = [subscription EXCEPT !.error = TRUE]
    /\ UNCHANGED <<chatDocs, messageDocs, clock, nextMsgId, calls, started, chats,
                   history, front>>

\* user or userProfile changed (sign-out, sign-in, a new profile object): the cleanup of
\* the effect of lines 70-81 runs, then the effect with the new setupSubscription; the
\* test-chat effect runs again too and its timeout is cleared
authChanged(signedIn) ==
    /\ subscription.isMounted
    /\ signedIn \/ subscription.signedIn
    /\ LET cleaned == [subscription EXCEPT !.active = unsubscribe(subscription),
                                           !.signedIn = signedIn]
       IN  IF signedIn
           THEN /\ subscription' = Resubscribed(cleaned)
                /\ loading' = TRUE
                /\ UNCHANGED chats
           ELSE /\ subscription' = [cleaned EXCEPT !.error = FALSE]
                /\ loading' = FALSE
                /\ chats' = {}
    /\ timer' = FALSE
    /\ UNCHANGED <<chatDocs, messageDocs, clock, nextMsgId, calls, started, failures,
                   history, front>>

\* the component of the list unmounts: the cleanups of both effects
unmountChatList ==
    /\ subscription.isMounted
    /\ subscription' = [subscription EXCEPT !.isMounted = FALSE,
                                            !.active = unsubscribe(subscription)]
    /\ timer' = FALSE
    /\ UNCHANGED <<chatDocs, messageDocs, clock, nextMsgId, calls, started, failures,
                   loading, chats, history, front>>

testChatData(userId, now) ==
    [participants |-> <<userId, testUserId>>,
     participantNames |-> [u \in {userId, testUserId} |-> NameOf(u)],
     participantAvatars |-> [u \in {userId, testUserId} |-> ""],
     lastMessage |-> testMessage,
     lastMessageTime |-> now,
     lastMessageSender |-> testUserId,
     unreadCount |-> [u \in {userId, testUserId} |-> IF u = userId THEN 1 ELSE 0],
     typingUsers |-> EmptyMap,
     createdAt |-> now,
     totalMessages |-> 1]

\* the timeout fires: createTestChatIfNeeded, and in it await setDoc(chatRef, chatData)
CreateTestChat(userId, ok) ==
    /\ timer
    /\ timer' = FALSE
    /\ started' = started + 1
    /\ settled' = Settle(started + 1, "createTestChat", ~ok, TRUE)
    /\ IF ok
       THEN /\ chatDocs' = MapMerge(chatDocs,
                  [c \in {generateChatId(userId, testUserId)} |->
                      testChatData(userId, clock + 1)])
            /\ clock' = clock + 1
            /\ UNCHANGED failures
       ELSE /\ failures' = failures + 1
            /\ UNCHANGED <<chatDocs, clock>>
    /\ UNCHANGED <<messageDocs, nextMsgId, calls, loading, chats, subscription,
                   readPoint, sentLog, deletedIds, win, front>>

(***************************************************************************)
(* The specifications.                                                     *)
(***************************************************************************)
\* what the model lets a store call do next: succeed, or fail while failures are left
Outcomes == IF failures < MaxFailures THEN BOOLEAN ELSE {TRUE}

\* a further call may start
CanStart == started < MaxCalls /\ Cardinality(calls) < MaxInFlight

\* every call of both sessions, overlapping, with store failures
Next ==
    \/ \E p \in SendPairs, text \in Texts, ok \in Outcomes :
            CanStart /\ SendAddDoc(p[1], p[2], text, ok)
    \/ \E call \in calls, ok \in Outcomes : SendGetDoc(call, ok)
    \/ \E call \in calls, ok \in Outcomes : SendSetDoc(call, ok)
    \/ \E v \in Views, ok \in Outcomes : CanStart /\ MarkUpdateDoc(v[1], v[2], ok)
    \/ \E call \in calls, ok \in Outcomes : MarkGetDocs(call, ok)
    \/ \E call \in calls, ok \in Outcomes : MarkCommit(call, ok)
    \/ \E id \in DOMAIN messageDocs, ok \in Outcomes : CanStart /\ DeleteMessage(id, ok)
    \/ \E chatId \in ChatIds, ok \in Outcomes : CanStart /\ DeleteChatGetDocs(chatId, ok)
    \/ \E call \in calls, ok \in Outcomes : DeleteChatCommit(call, ok)
    \/ \E v \in Views, isTyping \in BOOLEAN, ok \in Outcomes :
            CanStart /\ SetTypingStatus(v[1], v[2], isTyping, ok)
    \/ setupSubscription
    \/ failures < MaxFailures /\ handleError
    \/ handleChatsUpdate
    \/ \E ok \in Outcomes : CanStart /\ CreateTestChat(UA, ok)

Spec == Init /\ [][Next]_vars

\* the calls one after the other, each completing before the next starts, no store failure
CanStartSeq == Quiescent /\ started < MaxSeqCalls

NextSeq ==
    \/ \E p \in SendPairs, text \in Texts : CanStartSeq /\ SendAddDoc(p[1], p[2], text, TRUE)
    \/ \E call \in calls : SendGetDoc(call, TRUE)
    \/ \E call \in calls : SendSetDoc(call, TRUE)
    \/ \E v \in Views : CanStartSeq /\ MarkUpdateDoc(v[1], v[2], TRUE)
    \/ \E call \in calls : MarkGetDocs(call, TRUE)
    \/ \E call \in calls : MarkCommit(call, TRUE)

SpecSeq == Init /\ [][NextSeq]_vars

\* sends of one sender to one receiver, overlapping, no store failure
CanStartRace == started < MaxRaceCalls /\ Cardinality(calls) < MaxInFlight

NextRace ==
    \/ \E text \in Texts : CanStartRace /\ SendAddDoc(UA, UB, text, TRUE)
    \/ \E call \in calls : SendGetDoc(call, TRUE)
    \/ \E call \in calls : SendSetDoc(call, TRUE)

SpecRace == Init /\ [][NextRace]_vars

\* getMessageReadStatus applied to every snapshot and viewer of the input sets
InitStatus ==
    /\ chatDocs = EmptyMap
    /\ messageDocs = EmptyMap
    /\ clock = 0
    /\ nextMsgId = 1
    /\ calls = {}
    /\ started = 0
    /\ failures = 0
    /\ loading = TRUE
    /\ chats = {}
    /\ timer = FALSE
    /\ subscription = FirstSubscription
    /\ readPoint = [k \in ReadPointKeys |-> 0]
    /\ sentLog = EmptyMap
    /\ deletedIds = {}
    /\ win = [sends |-> 0, peak |-> 0, base |-> 0]
    /\ settled = [id |-> 0, kind |-> "", failed |-> FALSE, result |-> ""]
    /\ view = [instance |-> 0, mounted |-> FALSE, isTyping |-> FALSE, timeout |-> FALSE,
               messages |-> EmptyMap, loading |-> TRUE, listening |-> FALSE,
               markDue |-> FALSE, newMessage |-> "", sending |-> FALSE,
               messageText |-> "", awaiting |-> "", awaited |-> 0, idle |-> 0]
    /\ probe \in [message : Snapshots, viewer : Users, status : {""}]
    /\ userDocs = EmptyMap
    /\ authForm = [u \in {UA, UB} |-> NoForm]

NextStatus == ReadStatus

SpecStatus == InitStatus /\ [][NextStatus]_vars

\* sends of UA to UB and setTypingStatus one after the other, no store failure, while
\* time passes
CanStartTyping == Quiescent /\ started < MaxTypingCalls

NextTyping ==
    \/ \E text \in Texts : CanStartTyping /\ SendAddDoc(UA, UB, text, TRUE)
    \/ \E call \in calls : SendGetDoc(call, TRUE)
    \/ \E call \in calls : SendSetDoc(call, TRUE)
    \/ \E v \in Views, isTyping \in BOOLEAN :
            CanStartTyping /\ SetTypingStatus(v[1], v[2], isTyping, TRUE)
    \/ clock < MaxClock /\ Tick

SpecTyping == Init /\ [][NextTyping]_vars

\* the conversation view of UA from its opening to its teardown, with sends of UA to UB,
\* no store failure
CanStartView == started < MaxViewCalls

NextView ==
    \/ \E text \in Texts :
            CanStartView /\ SendsInFlight = {} /\ SendAddDoc(UA, UB, text, TRUE)
    \/ \E call \in calls : SendGetDoc(call, TRUE)
    \/ \E call \in calls : SendSetDoc(call, TRUE)
    \/ mountChatView
    \/ \E value \in InputValues : CanStartView /\ handleInputChange(value, TRUE)
    \/ CanStartView /\ typingTimeout(TRUE)
    \/ \E call \in calls : setIsTyping(call, TRUE)
    \/ unmountChatView(TRUE)

SpecView == Init /\ [][NextView]_vars

\* UA types and submits in the open conversation view, the store calls of the send
\* failing or not; what follows a settled send runs before anything else
CanStartSend == started < MaxSendCalls

NextSend ==
    \/ mountChatView
    \/ \E value \in InputValues :
            CanStartSend /\ ~SendSettled /\ handleInputChange(value, TRUE)
    \/ CanStartSend /\ ~SendSettled /\ typingTimeout(TRUE)
    \/ \E call \in calls : ~SendSettled /\ setIsTyping(call, TRUE)
    \/ \E ok \in Outcomes : CanStartSend /\ ~SendSettled /\ handleSendMessage(ok)
    \/ \E ok \in Outcomes : ~SendSettled /\ sendAfterTyping(ok)
    \/ \E call \in calls, ok \in Outcomes : SendGetDoc(call, ok)
    \/ \E call \in calls, ok \in Outcomes : SendSetDoc(call, ok)
    \/ sendSettled
    \/ ~SendSettled /\ unmountChatView(TRUE)

SpecSend == Init /\ [][NextSend]_vars

\* generateChatId applied to every two pairs of ids of the input set
InitChatId ==
    /\ chatDocs = EmptyMap
    /\ messageDocs = EmptyMap
    /\ clock = 0
    /\ nextMsgId = 1
    /\ calls = {}
    /\ started = 0
    /\ failures = 0
    /\ loading = TRUE
    /\ chats = {}
    /\ timer = FALSE
    /\ subscription = FirstSubscription
    /\ readPoint = [k \in ReadPointKeys |-> 0]
    /\ sentLog = EmptyMap
    /\ deletedIds = {}
    /\ win = [sends |-> 0, peak |-> 0, base |-> 0]
    /\ settled = [id |-> 0, kind |-> "", failed |-> FALSE, result |-> ""]
    /\ view = [instance |-> 0, mounted |-> FALSE, isTyping |-> FALSE, timeout |-> FALSE,
               messages |-> EmptyMap, loading |-> TRUE, listening |-> FALSE,
               markDue |-> FALSE, newMessage |-> "", sending |-> FALSE,
               messageText |-> "", awaiting |-> "", awaited |-> 0, idle |-> 0]
    /\ probe \in [a : Ids, b : Ids, c : Ids, d : Ids,
                   ab : {EmptyId}, ba : {EmptyId}, cd : {EmptyId}, done : {FALSE}]
    /\ userDocs = EmptyMap
    /\ authForm = [u \in {UA, UB} |-> NoForm]

\* the chat ids of (a, b), (b, a) and (c, d) are derived
deriveChatIds ==
    /\ ~probe.done
    /\ probe' = [probe EXCEPT !.ab = generateChatId(probe.a, probe.b),
                              !.ba = generateChatId(probe.b, probe.a),
                              !.cd = generateChatId(probe.c, probe.d),
                              !.done = TRUE]
    /\ UNCHANGED <<chatDocs, messageDocs, clock, nextMsgId, calls, started, failures,
                   hook, history, view, signup>>

NextChatId == deriveChatIds

SpecChatId == InitChatId /\ [][NextChatId]_vars

\* UA opens an existing conversation and keeps typing, every second with an input
\* change in it, no store failure
CanStartKeepTyping == started < MaxKeepTypingCalls

NextKeepTyping ==
    \/ \E text \in Texts :
            /\ CanStartKeepTyping /\ SendsInFlight = {} /\ view.instance = 0
            /\ SendAddDoc(UA, UB, text, TRUE)
    \/ \E call \in calls : SendGetDoc(call, TRUE)
    \/ \E call \in calls : SendSetDoc(call, TRUE)
    \/ SendsInFlight = {} /\ mountChatView
    \/ \E value \in InputValues : CanStartKeepTyping /\ handleInputChange(value, TRUE)
    \/ \E call \in calls : setIsTyping(call, TRUE)
    \/ clock < MaxClock /\ viewTick

SpecKeepTyping == Init /\ [][NextKeepTyping]_vars

\* UA has the conversation open and at the bottom; UB sends up to MaxFixpointMessages
\* messages and then no more; the runs of the mark-as-read effect are not limited
NextFixpoint ==
    \/ \E text \in Texts :
            /\ nextMsgId <= MaxFixpointMessages /\ SendsInFlight = {}
            /\ SendAddDoc(UB, UA, text, TRUE)
    \/ \E call \in calls : SendGetDoc(call, TRUE)
    \/ \E call \in calls : SendSetDoc(call, TRUE)
    \/ mountChatView
    \/ handleMessagesUpdate
    \/ markAsReadEffect(TRUE)
    \/ \E call \in calls : MarkGetDocs(call, TRUE)
    \/ \E call \in calls : MarkCommit(call, TRUE)

SpecFixpoint == Init /\ [][NextFixpoint]_vars

\* sends of UA to UB, overlapping, the store calls failing or not; UB does nothing
CanStartLossy == started < MaxLossyCalls /\ Cardinality(calls) < MaxInFlight

NextLossy ==
    \/ \E text \in Texts, ok \in Outcomes : CanStartLossy /\ SendAddDoc(UA, UB, text, ok)
    \/ \E call \in calls, ok \in Outcomes : SendGetDoc(call, ok)
    \/ \E call \in calls, ok \in Outcomes : SendSetDoc(call, ok)

SpecLossy == Init /\ [][NextLossy]_vars

\* the two sessions choosing their usernames, the store calls failing or not
CanStartProfile == started < MaxProfileCalls

NextProfile ==
    \/ \E u \in Sessions, raw \in UsernameInputs : handleUsernameChange(u, raw)
    \/ \E u \in Sessions, ok \in Outcomes : CanStartProfile /\ validateUsername(u, ok)
    \/ \E call \in calls : setUsernameAvailable(call)
    \/ \E u \in Sessions, ok \in Outcomes : CanStartProfile /\ handleUsernameSubmit(u, ok)

SpecProfile == Init /\ [][NextProfile]_vars

\* sendMessage called with an empty receiver id, next to sends of UA to UB, overlapping,
\* the store calls failing or not
CanStartMalformed == started < MaxMalformedCalls /\ Cardinality(calls) < MaxInFlight

NextMalformed ==
    \/ \E p \in MalformedPairs \cup {<<UA, UB>>}, text \in Texts, ok \in Outcomes :
            CanStartMalformed /\ SendAddDoc(p[1], p[2], text, ok)
    \/ \E call \in calls, ok \in Outcomes : SendGetDoc(call, ok)
    \/ \E call \in calls, ok \in Outcomes : SendSetDoc(call, ok)

SpecMalformed == Init /\ [][NextMalformed]_vars

\* the two subscriptions of the session of UA, delivering snapshots or failing, with
\* sends between UA and UB
CanStartSubscribe == started < MaxSubscribeCalls /\ SendsInFlight = {}

NextSubscribe ==
    \/ \E p \in {<<UA, UB>>, <<UB, UA>>}, text \in Texts :
            CanStartSubscribe /\ SendAddDoc(p[1], p[2], text, TRUE)
    \/ \E call \in calls : SendGetDoc(call, TRUE)
    \/ \E call \in calls : SendSetDoc(call, TRUE)
    \/ setupSubscription
    \/ handleChatsUpdate
    \/ failures < MaxFailures /\ handleError
    \/ mountChatView
    \/ handleMessagesUpdate
    \/ failures < MaxFailures /\ messagesError

SpecSubscribe == Init /\ [][NextSubscribe]_vars

\* UA has the conversation open and at the bottom while UB sends, no store failure
CanStartInbox == started < MaxInboxCalls

NextInbox ==
    \/ \E text \in Texts :
            CanStartInbox /\ SendsInFlight = {} /\ SendAddDoc(UB, UA, text, TRUE)
    \/ \E call \in calls : SendGetDoc(call, TRUE)
    \/ \E call \in calls : SendSetDoc(call, TRUE)
    \/ mountChatView
    \/ handleMessagesUpdate
    \/ CanStartInbox /\ markAsReadEffect(TRUE)
    \/ \E call \in calls : MarkGetDocs(call, TRUE)
    \/ \E call \in calls : MarkCommit(call, TRUE)

SpecInbox == Init /\ [][NextInbox]_vars

\* the life of the list of the session of UA: snapshots and errors of its listener, retry,
\* sign-out and sign-in, unmount, callbacks that arrive after it, with sends by UA
CanStartLifecycle == started < MaxLifecycleCalls /\ SendsInFlight = {}

NextLifecycle ==
    \/ \E p \in {<<UA, UB>>, <<UA, testUserId>>}, text \in Texts :
            CanStartLifecycle /\ SendAddDoc(p[1], p[2], text, TRUE)
    \/ \E call \in calls : SendGetDoc(call, TRUE)
    \/ \E call \in calls : SendSetDoc(call, TRUE)
    \/ setupSubscription
    \/ handleChatsUpdate
    \/ failures < MaxFailures /\ handleError
    \/ \E signedIn \in BOOLEAN : authChanged(signedIn)
    \/ unmountChatList
    \/ CanStartLifecycle /\ CreateTestChat(UA, TRUE)

SpecLifecycle == Init /\ [][NextLifecycle]_vars

\* sends and deleteChat one after the other, the store calls of deleteChat failing or not
CanStartDelete == Quiescent /\ started < MaxDeleteCalls

NextDelete ==
    \/ \E p \in SendPairs, text \in Texts :
            CanStartDelete /\ SendAddDoc(p[1], p[2], text, TRUE)
    \/ \E call \in calls : SendGetDoc(call, TRUE)
    \/ \E call \in calls : SendSetDoc(call, TRUE)
    \/ \E chatId \in ChatIds, ok \in Outcomes : CanStartDelete /\ DeleteChatGetDocs(chatId, ok)
    \/ \E call \in calls, ok \in Outcomes : DeleteChatCommit(call, ok)

SpecDelete == Init /\ [][NextDelete]_vars

(***************************************************************************)
(* The claims.                                                             *)
(***************************************************************************)
\* C1: whenever no call is in flight, unreadCount[x] of every participant x of a
\* conversation is the number of messages of the log that the other participant sent
\* since x last read the conversation (x's last mark-read, or x's own last send, which
\* the send protocol counts as reading); a deviation does not outlive the concurrent
\* calls that caused it.
C1_UnreadCountExactWhenQuiescent ==
    Quiescent =>
        \A chatId \in ChatIds : \A x \in ParticipantsOf(chatId) :
            UnreadOf(chatId, x) = TrueUnread(chatId, x)

\* the scenario of C2 has run: from the empty store, UA sent "hello" to UB, UB sent "hi"
\* to UA, then UA marked the conversation read, each call completing before the next
C2_ScenarioDone ==
    /\ Quiescent
    /\ started = 3
    /\ DOMAIN messageDocs = {1, 2}
    /\ messageDocs[1].chatId = chatAB /\ messageDocs[1].senderId = UA
    /\ messageDocs[1].text = "hello"
    /\ messageDocs[2].chatId = chatAB /\ messageDocs[2].senderId = UB
    /\ messageDocs[2].text = "hi"
    /\ readPoint[<<chatAB, UA>>] = 2

\* C2 (as claimed): the scenario ends with unreadCount[UA] = 0, unreadCount[UB] = 1,
\* totalMessages = 2 and lastMessage = "hi".
C2_ScenarioFinalStateAsClaimed ==
    C2_ScenarioDone =>
        /\ chatAB \in DOMAIN chatDocs
        /\ UnreadOf(chatAB, UA) = 0
        /\ UnreadOf(chatAB, UB) = 1
        /\ chatDocs[chatAB].totalMessages = 2
        /\ chatDocs[chatAB].lastMessage = "hi"

\* C2 (amended): the same scenario ends with unreadCount[UA] = 0, unreadCount[UB] = 0,
\* totalMessages = 2 and lastMessage = "hi": the send of UB reset UB's own count.
C2_ScenarioFinalState ==
    C2_ScenarioDone =>
        /\ chatAB \in DOMAIN chatDocs
        /\ UnreadOf(chatAB, UA) = 0
        /\ UnreadOf(chatAB, UB) = 0
        /\ chatDocs[chatAB].totalMessages = 2
        /\ chatDocs[chatAB].lastMessage = "hi"

C2_Witness == C2_ScenarioDone /\ chatAB \in DOMAIN chatDocs

\* C3: when a sendMessage(s, r, text) completes on a conversation that had no chat
\* document and no message, the chat has unreadCount[r] = 1, unreadCount[s] = 0,
\* totalMessages = 1, lastMessage = text, lastMessageSender = s, and its log holds
\* exactly that message, with readBy = {s} and delivered = false.
C3_FirstSend ==
    [][\A call \in calls :
          ( /\ call.kind = "sendMessage" /\ call.pc = "setDoc"
            /\ call \notin calls'
            /\ call.chatId \notin DOMAIN chatDocs
            /\ Cardinality(MessagesOf(call.chatId)) = 1 )
          =>
          ( /\ call.chatId \in DOMAIN chatDocs'
            /\ chatDocs'[call.chatId].unreadCount =
                   [u \in {call.userId, call.receiverId} |->
                       IF u = call.receiverId THEN 1 ELSE 0]
            /\ chatDocs'[call.chatId].totalMessages = 1
            /\ chatDocs'[call.chatId].lastMessage = call.text
            /\ chatDocs'[call.chatId].lastMessageSender = call.userId
            /\ \E id \in DOMAIN messageDocs' :
                  /\ {i \in DOMAIN messageDocs' : messageDocs'[i].chatId = call.chatId} = {id}
                  /\ messageDocs'[id].text = call.text
                  /\ messageDocs'[id].senderId = call.userId
                  /\ DOMAIN messageDocs'[id].readBy = {call.userId}
                  /\ messageDocs'[id].delivered = FALSE )
      ]_vars

C3_Witness ==
    /\ Quiescent
    /\ started = 1
    /\ chatAB \in DOMAIN chatDocs
    /\ chatDocs[chatAB].totalMessages = 1
    /\ Cardinality(MessagesOf(chatAB)) = 1

\* the messages x sent in a chat
OwnMessages(chatId, x) == {id \in MessagesOf(chatId) : messageDocs[id].senderId = x}

\* the messages of the other participant after x's own last message and last mark-read
Trailing(chatId, x) ==
    {id \in MessagesOf(chatId) \ OwnMessages(chatId, x) :
        /\ \A own \in OwnMessages(chatId, x) : own < id
        /\ id > readPoint[<<chatId, x>>]}

\* C4: after any sequence of sends and mark-reads, each completing before the next
\* starts, unreadCount[x] of each participant x is the number of trailing messages of
\* the other participant: those after x's last mark-read and after x's own last message.
C4_SequentialUnreadCount ==
    Quiescent =>
        \A chatId \in ChatIds : \A x \in ParticipantsOf(chatId) :
            UnreadOf(chatId, x) = Cardinality(Trailing(chatId, x))

C4_Witness ==
    /\ Quiescent
    /\ UnreadOf(chatAB, UB) = 2
    /\ readPoint[<<chatAB, UB>>] > 0
    /\ Cardinality(MessagesOf(chatAB)) = 4

\* how far unreadCount[UB] is below the messages UA sent that UB has not read
UnderCount == TrueUnread(chatAB, UB) - UnreadOf(chatAB, UB)

C6_TotalMessagesNeverDecreases ==
    [][\A chatId \in ChatIds :
          (chatId \in DOMAIN chatDocs /\ chatId \in DOMAIN chatDocs')
          => chatDocs'[chatId].totalMessages >= chatDocs[chatId].totalMessages
      ]_vars

\* C7: under every interleaving, a message whose append succeeded is in the log, with
\* the text, sender, chat and timestamp it was appended with, until deleteMessage or
\* deleteChat deletes it; concurrent metadata writes never remove or overwrite it.
C7_MessagesNeverLost ==
    \A id \in DOMAIN sentLog :
        id \notin deletedIds =>
            /\ id \in DOMAIN messageDocs
            /\ messageDocs[id].text = sentLog[id].text
            /\ messageDocs[id].senderId = sentLog[id].senderId
            /\ messageDocs[id].chatId = sentLog[id].chatId
            /\ messageDocs[id].timestamp = sentLog[id].timestamp

\* overlapping calls have left unreadCount[UB] short of the log, which holds every message
C7_Witness ==
    /\ Quiescent
    /\ deletedIds = {}
    /\ Cardinality(MessagesOf(chatAB)) = 2
    /\ \E id \in MessagesOf(chatAB) : UB \in DOMAIN messageDocs[id].readBy
    /\ \E id \in MessagesOf(chatAB) : UB \notin DOMAIN messageDocs[id].readBy
    /\ UnreadOf(chatAB, UB) # TrueUnread(chatAB, UB)

\* C8: a markMessagesAsRead(chat, B) whose store calls all succeed sets unreadCount[B]
\* to 0 and leaves the other participant's unreadCount as it was; when it completes,
\* unreadCount[B] = 0, every message of the log not sent by B has a readBy[B] entry,
\* and no message sent by B has changed.
C8_MarkReadPostcondition ==
    [][ /\ \A call \in calls' \ calls :
              call.kind = "markMessagesAsRead" =>
                  /\ chatDocs'[call.chatId].unreadCount[call.userId] = 0
                  /\ \A x \in (DOMAIN chatDocs[call.chatId].unreadCount) \ {call.userId} :
                        /\ x \in DOMAIN chatDocs'[call.chatId].unreadCount
                        /\ chatDocs'[call.chatId].unreadCount[x] =
                               chatDocs[call.chatId].unreadCount[x]
                  /\ messageDocs' = messageDocs
        /\ \A call \in calls \ calls' :
              (call.kind = "markMessagesAsRead" /\ call.pc = "commit") =>
                  /\ chatDocs' = chatDocs
                  /\ chatDocs'[call.chatId].unreadCount[call.userId] = 0
                  /\ \A id \in MessagesOf(call.chatId) :
                        /\ id \in DOMAIN messageDocs'
                        /\ messageDocs[id].senderId # call.userId
                               => call.userId \in DOMAIN messageDocs'[id].readBy
                        /\ messageDocs[id].senderId = call.userId
                               => messageDocs'[id] = messageDocs[id]
      ]_vars

C8_Witness ==
    /\ Quiescent
    /\ UnreadOf(chatAB, UA) = 1
    /\ UnreadOf(chatAB, UB) = 0
    /\ \E id \in MessagesOf(chatAB) :
          messageDocs[id].senderId = UA /\ DOMAIN messageDocs[id].readBy = {UA, UB}
    /\ \E id \in MessagesOf(chatAB) :
          messageDocs[id].senderId = UB /\ DOMAIN messageDocs[id].readBy = {UB}

\* the newest message of a chat's log: the one with the greatest server timestamp
Newest(chatId) ==
    CHOOSE id \in MessagesOf(chatId) :
        \A other \in MessagesOf(chatId) :
            messageDocs[other].timestamp <= messageDocs[id].timestamp

\* C9: whenever no sendMessage is in flight, lastMessage and lastMessageSender of every
\* conversation that has messages are the text and the sender of its newest message.
C9_SummaryIsNewestMessage ==
    (SendsInFlight = {}) =>
        \A chatId \in ChatIds :
            MessagesOf(chatId) # {} =>
                /\ chatId \in DOMAIN chatDocs
                /\ chatDocs[chatId].lastMessage = messageDocs[Newest(chatId)].text
                /\ chatDocs[chatId].lastMessageSender = messageDocs[Newest(chatId)].senderId

\* C10: createdAt of a conversation is set by the send that creates it and never
\* changes while the conversation exists.
C10_CreatedAtImmutable ==
    [][\A chatId \in ChatIds :
          (chatId \in DOMAIN chatDocs /\ chatId \in DOMAIN chatDocs')
          => chatDocs'[chatId].createdAt = chatDocs[chatId].createdAt
      ]_vars

\* C11: when a deleteChat that runs alone resolves, the chat document and every message
\* of the chat are gone from the store; when it rejects (its getDocs or its commit
\* failed), the chat documents and the messages are exactly as they were.
C11_DeleteChatAllOrNothing ==
    [][ /\ \A call \in calls \ calls' :
              call.kind = "deleteChat" =>
                  IF settled'.result = "resolved"
                  THEN /\ call.chatId \notin DOMAIN chatDocs'
                       /\ \A id \in DOMAIN messageDocs' :
                             messageDocs'[id].chatId # call.chatId
                  ELSE chatDocs' = chatDocs /\ messageDocs' = messageDocs
        /\ (settled' # settled /\ settled'.kind = "deleteChat"
                /\ settled'.result = "rejected")
              => (chatDocs' = chatDocs /\ messageDocs' = messageDocs)
      ]_vars

\* a deleteChat failed and left two messages, the next one deleted them and the chat
C11_Witness ==
    /\ settled.kind = "deleteChat" /\ settled.result = "resolved"
    /\ failures = 1
    /\ Cardinality(deletedIds) = 2
    /\ chatAB \notin DOMAIN chatDocs
    /\ MessagesOf(chatAB) = {}

\* the order sent -> delivered -> read
StatusRank(status) == IF status = "sent" THEN 1 ELSE IF status = "delivered" THEN 2 ELSE 3

\* C12: for every message and every viewer, no step of any operation that keeps the
\* message in the log moves getMessageReadStatus backwards in sent -> delivered -> read.
C12_ReadStatusMonotonic ==
    [][\A id \in (DOMAIN messageDocs) \cap (DOMAIN messageDocs') : \A viewer \in Users :
          StatusRank(getMessageReadStatus(messageDocs'[id], viewer))
              >= StatusRank(getMessageReadStatus(messageDocs[id], viewer))
      ]_vars

\* the sender sees one message of theirs as read and a later one as sent
C12_Witness ==
    \E id, other \in MessagesOf(chatAB) :
        /\ messageDocs[id].senderId = UA /\ messageDocs[other].senderId = UA
        /\ getMessageReadStatus(messageDocs[id], UA) = "read"
        /\ getMessageReadStatus(messageDocs[other], UA) = "sent"

\* C13: getMessageReadStatus(message, viewer) is "read" for a message the viewer did not
\* send; for a message of the viewer it is "read" if readBy has a key other than the
\* viewer, otherwise "delivered" if the delivered flag is set, otherwise "sent".
C13_ReadStatusTable ==
    probe.status # "" =>
        LET m == probe.message
            keys == IF "readBy" \in DOMAIN m THEN DOMAIN m.readBy ELSE {}
            flag == IF "delivered" \in DOMAIN m THEN m.delivered ELSE FALSE
        IN  /\ m.senderId # probe.viewer => probe.status = "read"
            /\ (m.senderId = probe.viewer /\ keys \ {probe.viewer} # {})
                  => probe.status = "read"
            /\ (m.senderId = probe.viewer /\ keys \ {probe.viewer} = {} /\ flag)
                  => probe.status = "delivered"
            /\ (m.senderId = probe.viewer /\ keys \ {probe.viewer} = {} /\ ~flag)
                  => probe.status = "sent"

\* an own message nobody else has read, with the delivered flag set, renders as delivered
C13_Witness ==
    /\ probe.status = "delivered"
    /\ probe.message.senderId = probe.viewer
    /\ "readBy" \in DOMAIN probe.message
    /\ DOMAIN probe.message.readBy = {probe.viewer}

\* C14: right after setTypingStatus(chat, A, true) on an existing conversation the
\* typing set the other participant computes includes A; an entry whose age exceeds
\* 3000 ms is in no reader's typing set, without any setTypingStatus(chat, A, false).
C14_TypingSetFreshThenStale ==
    [][ /\ \A v \in Views :
              (v[1] \in DOMAIN chatDocs /\ SetTypingStatus(v[1], v[2], TRUE, TRUE))
              => \A other \in ParticipantsOf(v[1]) \ {v[2]} :
                    v[2] \in typingUserIds(chatDocs'[v[1]], other, clock')
        /\ \A chatId \in DOMAIN chatDocs' : \A u \in DOMAIN chatDocs'[chatId].typingUsers :
              (clock' - chatDocs'[chatId].typingUsers[u]) * TickMs > StaleMs
              => \A other \in ParticipantsOf(chatId) :
                    u \notin typingUserIds(chatDocs'[chatId], other, clock')
      ]_vars

\* the entry of UA is still in the document, older than 3000 ms, and UB does not count it
C14_Witness ==
    /\ chatAB \in DOMAIN chatDocs
    /\ UA \in DOMAIN chatDocs[chatAB].typingUsers
    /\ (clock - chatDocs[chatAB].typingUsers[UA]) * TickMs > StaleMs
    /\ UA \notin typingUserIds(chatDocs[chatAB], UB, clock)

\* C15: on an existing conversation, a setTypingStatus(chat, u, true) whose store call
\* succeeds sets typingUsers[u] to the time of the write, and setTypingStatus(chat, u,
\* false) removes the key typingUsers[u]; the other entries of typingUsers, every other
\* field of the chat, the other chats and the messages are unchanged.
C15_TypingStatusFrame ==
    [][\A v \in Views : \A isTyping \in BOOLEAN :
          (v[1] \in DOMAIN chatDocs /\ SetTypingStatus(v[1], v[2], isTyping, TRUE))
          => /\ isTyping => /\ v[2] \in DOMAIN chatDocs'[v[1]].typingUsers
                            /\ chatDocs'[v[1]].typingUsers[v[2]] = clock'
             /\ ~isTyping => v[2] \notin DOMAIN chatDocs'[v[1]].typingUsers
             /\ \A u \in Users \ {v[2]} :
                   /\ u \in DOMAIN chatDocs'[v[1]].typingUsers
                         <=> u \in DOMAIN chatDocs[v[1]].typingUsers
                   /\ u \in DOMAIN chatDocs[v[1]].typingUsers
                         => chatDocs'[v[1]].typingUsers[u] = chatDocs[v[1]].typingUsers[u]
             /\ [chatDocs'[v[1]] EXCEPT !.typingUsers = EmptyMap]
                    = [chatDocs[v[1]] EXCEPT !.typingUsers = EmptyMap]
             /\ DOMAIN chatDocs' = DOMAIN chatDocs
             /\ \A c \in (DOMAIN chatDocs) \ {v[1]} : chatDocs'[c] = chatDocs[c]
             /\ messageDocs' = messageDocs
      ]_vars

\* after a send, UB and then UA started typing and UA stopped: the entry of UB is left
C15_Witness ==
    /\ chatAB \in DOMAIN chatDocs
    /\ DOMAIN chatDocs[chatAB].typingUsers = {UB}
    /\ chatDocs[chatAB].typingUsers[UB] = 3
    /\ clock = 4
    /\ started = 4
    /\ settled.id = 4 /\ settled.kind = "setTypingStatus" /\ ~settled.failed

\* C16: setTypingStatus(chat, u, true) records typingUsers[u] also when the conversation
\* has no chat document: after it, the document exists and has the entry.
C16_TypingStatusUpserts ==
    [][\A v \in Views :
          SetTypingStatus(v[1], v[2], TRUE, TRUE)
          => /\ v[1] \in DOMAIN chatDocs'
             /\ v[2] \in DOMAIN chatDocs'[v[1]].typingUsers
      ]_vars

\* C17: once the conversation view has been torn down and every call that was in flight
\* at teardown has completed, the viewing user has no typingUsers entry in the
\* conversation.
C17_TypingClearedAfterTeardown ==
    (view.instance = 1 /\ ~view.mounted /\ calls = {} /\ chatAB \in DOMAIN chatDocs)
        => UA \notin DOMAIN chatDocs[chatAB].typingUsers

\* C18: the two effects of markMessagesAsRead are independent: when its updateDoc of
\* unreadCount fails, readBy[reader] is still written to every qualifying message by
\* the time the call settles; when its batch fails, the chat document keeps the reset.
C18_MarkReadEffectsIndependent ==
    [][ /\ \A v \in Views :
              ( /\ \E ok \in BOOLEAN : MarkUpdateDoc(v[1], v[2], ok)
                /\ settled'.id = started' /\ settled'.failed )
              => unreadQuery(v[1], v[2])' = {}
        /\ \A call \in calls \ calls' :
              (call.kind = "markMessagesAsRead" /\ settled'.failed)
              => chatDocs' = chatDocs
      ]_vars

\* C19: a sendMessage or deleteChat in which a store call failed rejects: the failure
\* reaches the caller.
C19_StoreFailuresPropagate ==
    (settled.kind \in {"sendMessage", "deleteChat"} /\ settled.failed)
        => settled.result = "rejected"

\* C20: markMessagesAsRead and setTypingStatus always resolve, also when a store call
\* inside them failed, and a failed store call ends the call: nothing of it is left in
\* flight to try again.
C20_BestEffortCallsResolve ==
    settled.kind \in {"markMessagesAsRead", "setTypingStatus"}
        => /\ settled.result = "resolved"
           /\ settled.failed => \A call \in calls : call.id # settled.id

\* a markMessagesAsRead of UB has reset unreadCount[UB], its batch failed, and it resolved
C20_Witness ==
    /\ settled.kind = "markMessagesAsRead"
    /\ settled.failed /\ settled.result = "resolved"
    /\ failures = 1
    /\ Quiescent
    /\ chatAB \in DOMAIN chatDocs
    /\ UnreadOf(chatAB, UB) = 0
    /\ unreadQuery(chatAB, UB) # {}

\* C21: a subscription failure hands the subscriber no data event: when the chats
\* subscription fails the list the hook holds is unchanged, and when the messages
\* subscription fails the messages and the loading flag the view holds are unchanged.
C21_SubscriptionErrorIsNotData ==
    [][ /\ handleError => chats' = chats
        /\ messagesError => (view'.messages = view.messages /\ view'.loading = view.loading)
      ]_vars

\* C30: UA having the conversation open and at the bottom, once the sends of UB and the
\* markMessagesAsRead calls they trigger in the view of UA have all completed (nothing
\* in flight, the view holding the latest snapshot, no run of the effect due),
\* unreadCount[UA] = 0.
C30_OpenViewLeavesNoUnread ==
    ( /\ view.mounted /\ ~view.loading
      /\ calls = {}
      /\ ~view.markDue
      /\ view.messages = messagesSnapshot(chatAB)
      /\ chatAB \in DOMAIN chatDocs )
    => UnreadOf(chatAB, UA) = 0

\* C22: in the open conversation view, at the step at which a send attempt completes the
\* sending has ended and, if sendMessage rejected, the input holds the message text that
\* was submitted (the trimmed input), and if it resolved the input is empty and a message
\* of UA with that text is in the log: the text is in the log or in the input.
C22_SendAttemptKeepsText ==
    [][ LET submitted == IF view.awaiting = "" THEN Trim(view.newMessage)
                         ELSE view.messageText
            completes == \/ view.awaiting = "sendMessage" /\ view'.awaiting = ""
                         \/ /\ view.awaiting # "sendMessage" /\ view'.awaiting = ""
                            /\ settled' # settled /\ settled'.kind = "sendMessage"
        IN  (view.mounted /\ view'.mounted /\ completes)
            => /\ ~view'.sending
               /\ IF settled'.result = "rejected"
                  THEN view'.newMessage = submitted
                  ELSE /\ view'.newMessage = ""
                       /\ \E id \in DOMAIN messageDocs' :
                             /\ messageDocs'[id].text = submitted
                             /\ messageDocs'[id].senderId = UA
               /\ submitted # "" ]_vars

\* a send of the view was rejected by its setDoc after the message was appended: the
\* text is back in the input and the sending has ended
C22_Witness ==
    /\ view.mounted /\ ~view.sending /\ view.awaiting = ""
    /\ settled.kind = "sendMessage" /\ settled.result = "rejected"
    /\ view.messageText = "hi" /\ view.newMessage = "hi"
    /\ \E id \in DOMAIN messageDocs : messageDocs[id].text = "hi"

\* C23: sendMessage with an empty id is rejected before any store call: no message is
\* ever in the log of a conversation derived from an empty id, no conversation document
\* is written for it, and the call that was given the empty id rejects at its start.
C23_EmptyIdRejected ==
    /\ \A id \in DOMAIN messageDocs : messageDocs[id].chatId \notin MalformedChatIds
    /\ \A c \in DOMAIN chatDocs : c \notin MalformedChatIds
    /\ \A call \in calls : call.receiverId # EmptyId /\ call.userId # EmptyId

\* C24: the conversation id does not depend on the order of the two ids: for all ids a
\* and b, generateChatId(a, b) = generateChatId(b, a).
C24_ChatIdSymmetric ==
    probe.done => probe.ab = probe.ba

\* the id of two ids given in descending order has been derived, and it has them in
\* ascending order
C24_Witness ==
    /\ probe.done
    /\ StrLess(probe.b, probe.a)
    /\ probe.ab = probe.b \o Underscore \o probe.a
    /\ probe.ab # probe.a \o Underscore \o probe.b

\* C25: for ids of the provider's id space (non-empty, without the delimiter "_"), two
\* different unordered pairs never have the same conversation id: {a, b} # {c, d}
\* implies generateChatId(a, b) # generateChatId(c, d).
C25_ChatIdInjective ==
    ( /\ probe.done
      /\ \A uid \in {probe.a, probe.b, probe.c, probe.d} : NoDelimiter(uid)
      /\ {probe.a, probe.b} # {probe.c, probe.d} )
    => probe.ab # probe.cd

\* the ids of two different pairs whose strings are the same when put one after the
\* other have been derived, and they differ
C25_Witness ==
    /\ probe.done
    /\ \A uid \in {probe.a, probe.b, probe.c, probe.d} : NoDelimiter(uid)
    /\ {probe.a, probe.b} # {probe.c, probe.d}
    /\ probe.a \o probe.b = probe.c \o probe.d
    /\ StrLess(probe.a, probe.b) /\ StrLess(probe.c, probe.d)
    /\ probe.ab # probe.cd

\* C26: usernames are unique across the user profiles: no two profile documents hold the
\* same username.
C26_UsernamesUnique ==
    \A u1 \in DOMAIN userDocs, u2 \in DOMAIN userDocs :
        u1 # u2 => userDocs[u1] # userDocs[u2]

\* C27: every conversation document has exactly two participants, two different ids, of
\* which its id is the generateChatId; and no step changes the set of participants of a
\* document that exists before and after it.
C27_ParticipantsFixedPair ==
    [][ \A c \in DOMAIN chatDocs' :
          LET ps == chatDocs'[c].participants
          IN  /\ Len(ps) = 2
              /\ ps[1] # ps[2]
              /\ c = generateChatId(ps[1], ps[2])
              /\ c \in DOMAIN chatDocs =>
                    {ps[i] : i \in 1..2} =
                    {chatDocs[c].participants[i] : i \in 1..Len(chatDocs[c].participants)}
      ]_vars

\* the conversation of UA and UB has been written by a send of UA and then by a send of
\* UB, which wrote its participants anew, in the other order
C27_Witness ==
    /\ chatAB \in DOMAIN chatDocs
    /\ chatDocs[chatAB].totalMessages = 2
    /\ chatDocs[chatAB].participants = <<UB, UA>>
    /\ \E id \in DOMAIN messageDocs :
          messageDocs[id].chatId = chatAB /\ messageDocs[id].senderId = UA

\* C28: a step changes nothing of an existing message but its readBy, to which it only
\* adds users: text, senderId, timestamp and the other fields stay and no user leaves
\* readBy; a message that is gone after the step was deleted, and a deleted message is
\* never in the log again.
C28_MessagesOnlyGainReaders ==
    [][ /\ \A id \in DOMAIN messageDocs :
              IF id \in DOMAIN messageDocs'
              THEN /\ [messageDocs'[id] EXCEPT !.readBy = EmptyMap]
                        = [messageDocs[id] EXCEPT !.readBy = EmptyMap]
                   /\ DOMAIN messageDocs[id].readBy \subseteq DOMAIN messageDocs'[id].readBy
              ELSE id \in deletedIds'
        /\ \A id \in deletedIds : id \in deletedIds' /\ id \notin DOMAIN messageDocs'
      ]_vars

\* a message has been read by its receiver: readBy has the receiver next to the sender,
\* with the time the sender's entry had when the message was written, and the rest of
\* the message is as written
C28_Witness ==
    \E id \in DOMAIN messageDocs :
        /\ Cardinality(DOMAIN messageDocs[id].readBy) = 2
        /\ messageDocs[id] # sentLog[id]
        /\ messageDocs[id].text = sentLog[id].text
        /\ messageDocs[id].readBy[messageDocs[id].senderId] = sentLog[id].timestamp

\* C29: the list subscribeToChats delivers for a snapshot is in descending order of
\* lastMessageTime (each entry's time >= the next one's) and holds, once each, exactly
\* the conversations whose participants include the user; its ids are what the hook
\* holds after the delivery.
C29_ChatListSortedAndComplete ==
    [][ handleChatsUpdate =>
          LET list == chatsDelivered(UA)
          IN  /\ \A i \in 1..(Len(list) - 1) :
                    chatDocs[list[i]].lastMessageTime >= chatDocs[list[i + 1]].lastMessageTime
              /\ {list[i] : i \in 1..Len(list)} =
                    {c \in DOMAIN chatDocs :
                        UA \in {chatDocs[c].participants[i] :
                                   i \in 1..Len(chatDocs[c].participants)}}
              /\ \A i \in 1..Len(list), j \in 1..Len(list) : list[i] = list[j] => i = j
              /\ chats' = {list[i] : i \in 1..Len(list)}
      ]_vars

\* the hook holds the two conversations of UA, of which the one that comes second in the
\* snapshot has the later message and is delivered first
C29_Witness ==
    /\ ~loading
    /\ chats = {chatAB, generateChatId(UA, testUserId)}
    /\ chats = ChatsOf(UA)
    /\ SnapshotDocs(chats) = <<chatAB, generateChatId(UA, testUserId)>>
    /\ chatsDelivered(UA) = <<generateChatId(UA, testUserId), chatAB>>
    /\ chatDocs[chatAB].lastMessageTime < chatDocs[generateChatId(UA, testUserId)].lastMessageTime

\* C31: a sendMessage that rejects has appended nothing and has left the conversation
\* document as it was when the call started: at the step at which a send settles as
\* rejected, the message of that call is not in the log.
C31_FailedSendAppendsNothing ==
    [][ \A call \in calls \ calls' :
          ( /\ call.kind = "sendMessage"
            /\ settled'.id = call.id
            /\ settled'.result = "rejected" )
          => (call.upTo + 1) \notin DOMAIN messageDocs'
      ]_vars

\* C32: the receiver neither marking the conversation read nor sending, a sendMessage
\* that completes leaves unreadCount[receiver] at least what it was when the send
\* started, also when its getDoc fails and when sends overlap.
C32_SendNeverLowersUnread ==
    [][ \A call \in calls \ calls' :
          ( /\ call.kind = "sendMessage"
            /\ settled'.id = call.id
            /\ settled'.result = "resolved" )
          => UnreadOf(call.chatId, call.receiverId)' >= call.unreadAtStart
      ]_vars

\* C33: when no call is in flight, a conversation without a chat document has no
\* message in its log.
C33_NoMessagesWithoutChat ==
    Quiescent =>
        \A c \in ChatIds : c \notin DOMAIN chatDocs => MessagesOf(c) = {}

\* C34: sendMessage leaves typingUsers alone: an entry the conversation has before the
\* merge-write of a send is there after it, with the same time.
C34_SendKeepsTypingUsers ==
    [][ \A call \in calls \ calls' :
          ( /\ call.kind = "sendMessage"
            /\ settled'.id = call.id
            /\ settled'.result = "resolved"
            /\ call.chatId \in DOMAIN chatDocs )
          => \A u \in DOMAIN chatDocs[call.chatId].typingUsers :
                /\ u \in DOMAIN chatDocs'[call.chatId].typingUsers
                /\ chatDocs'[call.chatId].typingUsers[u] = chatDocs[call.chatId].typingUsers[u]
      ]_vars

\* C35: in the open conversation view, when the second without input is over, that
\* is when no timeout of handleTyping(false) is pending any more and no call is in
\* flight, setTypingStatus(conv, user, false) has been issued and the user has no
\* typingUsers entry in the store.
C35_TypingClearedAfterPause ==
    ( /\ view.mounted
      /\ ~view.timeout
      /\ calls = {}
      /\ chatAB \in DOMAIN chatDocs )
    => UA \notin DOMAIN chatDocs[chatAB].typingUsers

\* C36: while UA keeps typing in the open view, with an input change in every second,
\* the typing computation of UB includes UA: whenever UA has just made an input change
\* that left text in the field, the view having isTyping set, the typingUsers entry
\* of UA is less than 3000 ms old.
C36_TypingStaysFresh ==
    ( /\ view.mounted /\ view.isTyping
      /\ view.idle = 0
      /\ Trim(view.newMessage) # ""
      /\ chatAB \in DOMAIN chatDocs )
    => UA \in typingUserIds(chatDocs[chatAB], UB, clock)

\* C37: no message is ever delivered = true; so for every message in the log
\* getMessageReadStatus gives its sender 'sent' or 'read', never 'delivered'.
C37_NeverDelivered ==
    \A id \in DOMAIN messageDocs :
        /\ messageDocs[id].delivered = FALSE
        /\ getMessageReadStatus(messageDocs[id], messageDocs[id].senderId) \in {"sent", "read"}

\* the log holds a message its receiver has read and a message nobody else has read:
\* their senders are shown 'read' and 'sent'
C37_Witness ==
    /\ \E id \in DOMAIN messageDocs :
          /\ Cardinality(DOMAIN messageDocs[id].readBy) = 2
          /\ getMessageReadStatus(messageDocs[id], messageDocs[id].senderId) = "read"
    /\ \E id \in DOMAIN messageDocs :
          /\ DOMAIN messageDocs[id].readBy = {messageDocs[id].senderId}
          /\ getMessageReadStatus(messageDocs[id], messageDocs[id].senderId) = "sent"

\* the runs of the mark-as-read effect so far: the calls started that are not sends
MarkRuns == started - (nextMsgId - 1)

\* C38: the cycle of message snapshot, markMessagesAsRead and readBy writes ends: with
\* m messages sent so far the mark-as-read effect has run at most (m + 2) * (m + 2)
\* times, so only finitely many readBy writes are made once no new message arrives;
\* and a run whose getDocs finds every message of the other participant read fills
\* its batch with nothing, so it writes no message and changes no snapshot.
C38_MarkAsReadReachesFixpoint ==
    [][ /\ MarkRuns' <= (nextMsgId' + 1) * (nextMsgId' + 1)
        /\ \A call \in calls \ calls' :
              ( /\ call.kind = "markMessagesAsRead" /\ call.pc = "getDocs"
                /\ \A id \in MessagesOf(call.chatId) :
                      messageDocs[id].senderId # call.userId
                      => call.userId \in DOMAIN messageDocs[id].readBy )
              => \A next \in calls' \ calls : next.id = call.id => next.docs = {}
      ]_vars

\* the cycle has gone round and come to rest: the messages of UB have readBy[UA], the
\* view has the snapshot with these entries, nothing is in flight or due, and the last
\* run, which came after the writes, found nothing to write
C38_Witness ==
    /\ view.mounted /\ ~view.markDue /\ calls = {}
    /\ nextMsgId - 1 = MaxFixpointMessages
    /\ view.messages = messagesSnapshot(chatAB)
    /\ \A id \in MessagesOf(chatAB) : UA \in DOMAIN messageDocs[id].readBy
    /\ MarkRuns >= 3
    /\ settled.kind = "markMessagesAsRead" /\ ~settled.failed

\* C40: createTestChat never overwrites an existing conversation: when the timeout of
\* useChats fires and the conversation of the user with the test user is already in the
\* store, the document keeps its unreadCount, lastMessage and totalMessages.
C40_TestChatNeverOverwrites ==
    [][ ( /\ started' = started + 1
          /\ settled'.kind = "createTestChat" /\ settled'.id = started'
          /\ generateChatId(UA, testUserId) \in DOMAIN chatDocs )
        => LET c == generateChatId(UA, testUserId)
           IN  /\ c \in DOMAIN chatDocs'
               /\ chatDocs'[c].unreadCount = chatDocs[c].unreadCount
               /\ chatDocs'[c].lastMessage = chatDocs[c].lastMessage
               /\ chatDocs'[c].totalMessages = chatDocs[c].totalMessages
      ]_vars

\* C39: the list of a session holds at most one listener on the chats query at any time,
\* holds none once it is unmounted or its user is signed out, and a callback of a
\* listener that arrives after unmount changes none of chats, loading and error.
C39_OneSubscriptionPerList ==
    [][ /\ Cardinality(subscription'.active) <= 1
        /\ (~subscription'.isMounted \/ ~subscription'.signedIn)
              => subscription'.active = {}
        /\ ~subscription.isMounted
              => /\ chats' = chats
                 /\ loading' = loading
                 /\ subscription'.error = subscription.error
      ]_vars

C39_Witness ==
    /\ ~subscription.isMounted /\ ~subscription.signedIn
    /\ subscription.dropped
    /\ subscription.active = {}
    /\ chats # ChatsOf(UA)

====
